---- MODULE Spec2Model ----
(***************************************************************************)
(* A model of the web scraper service (main.go): the /scrape handler, the  *)
(* deadline-bound fetch, the anti-bot classifier, the URL resolver and the *)
(* pre-order extraction over the parsed tree.                              *)
(*                                                                         *)
(* Strings are TLA+ strings; a byte of a string s is SubSeq(s, i, i).      *)
(* Positions are 1-based, and 0 stands for Go's -1 ("not found").          *)
(***************************************************************************)
EXTENDS Integers, Sequences, FiniteSets, TLC

(***************************************************************************)
(* Package strings.                                                        *)
(***************************************************************************)
At(s, i) == SubSeq(s, i, i)

From(s, i) == SubSeq(s, i, Len(s))

HasPrefix(s, pre) == Len(pre) <= Len(s) /\ SubSeq(s, 1, Len(pre)) = pre

HasSuffix(s, suf) ==
    Len(suf) <= Len(s) /\ SubSeq(s, Len(s) - Len(suf) + 1, Len(s)) = suf

Occurrences(s, sub) ==
    {i \in 1..(Len(s) - Len(sub) + 1) : SubSeq(s, i, i + Len(sub) - 1) = sub}

Index(s, sub) ==
    LET occ == Occurrences(s, sub)
    IN  IF occ = {} THEN 0 ELSE CHOOSE i \in occ : \A j \in occ : i <= j

LastIndex(s, sub) ==
    LET occ == Occurrences(s, sub)
    IN  IF occ = {} THEN 0 ELSE CHOOSE i \in occ : \A j \in occ : i >= j

Contains(s, sub) == Occurrences(s, sub) # {}

\* strings.Count for a one-byte separator (occurrences cannot overlap).
Count(s, sub) == Cardinality(Occurrences(s, sub))

\* strings.Cut: the text before and after the first sep, and whether sep was found.
Cut(s, sep) ==
    LET i == Index(s, sep)
    IN  IF i = 0
        THEN [before |-> s, after |-> "", found |-> FALSE]
        ELSE [before |-> SubSeq(s, 1, i - 1),
              after  |-> From(s, i + Len(sep)),
              found  |-> TRUE]

UpperLetters == "ABCDEFGHIJKLMNOPQRSTUVWXYZ"
LowerLetters == "abcdefghijklmnopqrstuvwxyz"
Digits == "0123456789"
HexDigits == "0123456789abcdefABCDEF"

IsUpper(c) == Contains(UpperLetters, c)
IsLetter(c) == Contains(UpperLetters, c) \/ Contains(LowerLetters, c)
IsDigit(c) == Contains(Digits, c)
IsHex(c) == Contains(HexDigits, c)

ToLowerByte(c) == IF IsUpper(c) THEN At(LowerLetters, Index(UpperLetters, c)) ELSE c

RECURSIVE ToLower(_)
ToLower(s) == IF s = "" THEN "" ELSE ToLowerByte(At(s, 1)) \o ToLower(From(s, 2))

\* The white space strings.TrimSpace strips (the ASCII part of unicode.IsSpace).
IsSpace(c) == c \in {" ", "\t", "\n", "\r", "\f"}

RECURSIVE TrimLeft(_)
TrimLeft(s) == IF s # "" /\ IsSpace(At(s, 1)) THEN TrimLeft(From(s, 2)) ELSE s

RECURSIVE TrimRight(_)
TrimRight(s) ==
    IF s # "" /\ IsSpace(At(s, Len(s))) THEN TrimRight(SubSeq(s, 1, Len(s) - 1)) ELSE s

TrimSpace(s) == TrimRight(TrimLeft(s))

(***************************************************************************)
(* Package net/url, as used by url.Parse (main.go:98, 354, 359) and by     *)
(* ResolveReference(...).String() (main.go:364).  Bytes are the printable  *)
(* ASCII characters and the control characters TLA+ can write.             *)
(***************************************************************************)
\* The bytes 0x20..0x7e in order.  A TLA+ string cannot hold the grave accent
\* (0x60); a tab keeps its place, and no modelled input holds that byte.
Printable ==
    " !\"#$%&'()*+,-./0123456789:;<=>?@ABCDEFGHIJKLMNOPQRSTUVWXYZ[\\]^_\tabcdefghijklmnopqrstuvwxyz{|}~"

\* b < ' ' || b == 0x7f
IsCTLByte(c) == c \in {"\t", "\n", "\r", "\f"}

stringContainsCTLByte(s) == \E i \in 1..Len(s) : IsCTLByte(At(s, i))

UpperHex == "0123456789ABCDEF"

ByteCode(c) == 31 + Index(Printable, c)

unhex(c) == Index(UpperHex, IF IsDigit(c) THEN c ELSE At(UpperLetters, Index(LowerLetters, ToLowerByte(c)))) - 1

\* The byte a %XY triple stands for.  Codes outside printable ASCII have no
\* string here and are left as the triple; the modelled inputs hold none.
DecodeTriple(t) ==
    LET v == 16 * unhex(At(t, 2)) + unhex(At(t, 3))
    IN  IF v >= 32 /\ v <= 126 THEN At(Printable, v - 31) ELSE t

EncodeByte(c) ==
    LET v == ByteCode(c)
    IN  "%" \o At(UpperHex, (v \div 16) + 1) \o At(UpperHex, (v % 16) + 1)

\* shouldEscape(c, mode) for the modes "path", "host", "fragment", "user".
shouldEscape(c, mode) ==
    IF IsLetter(c) \/ IsDigit(c) THEN FALSE
    ELSE IF mode = "host" /\ Contains("!$&'()*+,;=:[]<>\"", c) THEN FALSE
    ELSE IF Contains("-_.~", c) THEN FALSE
    ELSE IF Contains("$&+,/:;=?@", c) /\ mode = "path" THEN c = "?"
    ELSE IF Contains("$&+,/:;=?@", c) /\ mode = "user" THEN Contains("@/?:", c)
    ELSE IF Contains("$&+,/:;=?@", c) /\ mode = "fragment" THEN FALSE
    ELSE IF mode = "fragment" /\ Contains("!()*", c) THEN FALSE
    ELSE TRUE

\* unescape's first pass: whether it returns an EscapeError / InvalidHostError.
RECURSIVE unescapeFails(_, _)
unescapeFails(s, mode) ==
    IF s = "" THEN FALSE
    ELSE IF At(s, 1) = "%"
    THEN \/ Len(s) < 3
         \/ ~IsHex(At(s, 2))
         \/ ~IsHex(At(s, 3))
         \/ (mode = "host" /\ unhex(At(s, 2)) < 8 /\ SubSeq(s, 1, 3) # "%25")
         \/ unescapeFails(From(s, 4), mode)
    ELSE \/ (mode = "host" /\ shouldEscape(At(s, 1), "host"))
         \/ unescapeFails(From(s, 2), mode)

\* unescape's second pass, on a string the first pass accepted.
RECURSIVE unescapeValue(_)
unescapeValue(s) ==
    IF s = "" THEN ""
    ELSE IF At(s, 1) = "%"
    THEN DecodeTriple(SubSeq(s, 1, 3)) \o unescapeValue(From(s, 4))
    ELSE At(s, 1) \o unescapeValue(From(s, 2))

RECURSIVE escape(_, _)
escape(s, mode) ==
    IF s = "" THEN ""
    ELSE (IF shouldEscape(At(s, 1), mode) THEN EncodeByte(At(s, 1)) ELSE At(s, 1))
         \o escape(From(s, 2), mode)

validEncoded(s, mode) ==
    \A i \in 1..Len(s) :
        \/ Contains("!$&'()*+,;=:@[]%", At(s, i))
        \/ ~shouldEscape(At(s, i), mode)

\* The zero URL value.
EmptyURL ==
    [Scheme |-> "", Opaque |-> "", User |-> "", HasUser |-> FALSE, Host |-> "",
     Path |-> "", RawPath |-> "", OmitHost |-> FALSE, ForceQuery |-> FALSE,
     RawQuery |-> "", Fragment |-> "", RawFragment |-> ""]

\* getScheme: [err, scheme, rest].
RECURSIVE getSchemeAt(_, _)
getSchemeAt(rawURL, i) ==
    IF i > Len(rawURL) THEN [err |-> FALSE, scheme |-> "", rest |-> rawURL]
    ELSE LET c == At(rawURL, i)
         IN  IF IsLetter(c) THEN getSchemeAt(rawURL, i + 1)
             ELSE IF IsDigit(c) \/ c \in {"+", "-", "."}
             THEN IF i = 1 THEN [err |-> FALSE, scheme |-> "", rest |-> rawURL]
                  ELSE getSchemeAt(rawURL, i + 1)
             ELSE IF c = ":"
             THEN IF i = 1 THEN [err |-> TRUE, scheme |-> "", rest |-> ""]
                  ELSE [err |-> FALSE, scheme |-> SubSeq(rawURL, 1, i - 1),
                        rest |-> From(rawURL, i + 1)]
             ELSE [err |-> FALSE, scheme |-> "", rest |-> rawURL]

getScheme(rawURL) == getSchemeAt(rawURL, 1)

validOptionalPort(port) ==
    \/ port = ""
    \/ /\ At(port, 1) = ":"
       /\ \A i \in 2..Len(port) : IsDigit(At(port, i))

\* parseHost: [err, host].  (IPv6 zone identifiers are outside the modelled inputs.)
parseHost(host) ==
    LET portBad ==
            IF HasPrefix(host, "[")
            THEN LET i == LastIndex(host, "]")
                 IN  i = 0 \/ ~validOptionalPort(From(host, i + 1))
            ELSE LET i == LastIndex(host, ":")
                 IN  i # 0 /\ ~validOptionalPort(From(host, i))
    IN  IF portBad \/ unescapeFails(host, "host")
        THEN [err |-> TRUE, host |-> ""]
        ELSE [err |-> FALSE, host |-> unescapeValue(host)]

validUserinfo(s) ==
    \A i \in 1..Len(s) :
        LET c == At(s, i)
        IN  IsLetter(c) \/ IsDigit(c) \/ Contains("-._:~!$&'()*+,;=%@", c)

\* parseAuthority: [err, hasUser, user, host]; user is kept as written.
parseAuthority(authority) ==
    LET i == LastIndex(authority, "@")
        h == parseHost(From(authority, i + 1))
        userinfo == SubSeq(authority, 1, i - 1)
    IN  IF h.err THEN [err |-> TRUE, hasUser |-> FALSE, user |-> "", host |-> ""]
        ELSE IF i = 0 THEN [err |-> FALSE, hasUser |-> FALSE, user |-> "", host |-> h.host]
        ELSE IF ~validUserinfo(userinfo) \/ unescapeFails(userinfo, "user")
        THEN [err |-> TRUE, hasUser |-> FALSE, user |-> "", host |-> ""]
        ELSE [err |-> FALSE, hasUser |-> TRUE, user |-> userinfo, host |-> h.host]

\* (*URL).setPath: [err, Path, RawPath].
setPath(p) ==
    IF unescapeFails(p, "path") THEN [err |-> TRUE, Path |-> "", RawPath |-> ""]
    ELSE LET path == unescapeValue(p)
         IN  [err |-> FALSE, Path |-> path,
              RawPath |-> IF p = escape(path, "path") THEN "" ELSE p]

\* (*URL).setFragment: [err, Fragment, RawFragment].
setFragment(f) ==
    IF unescapeFails(f, "fragment") THEN [err |-> TRUE, Fragment |-> "", RawFragment |-> ""]
    ELSE LET frag == unescapeValue(f)
         IN  [err |-> FALSE, Fragment |-> frag,
              RawFragment |-> IF f = escape(frag, "fragment") THEN "" ELSE f]

ParseError == [err |-> TRUE, url |-> EmptyURL]

\* The end of parse: the authority and the path are set, or either failed.
parseFinish(u0, omitHost, au, sp) ==
    IF au.err \/ sp.err THEN ParseError
    ELSE [err |-> FALSE,
          url |-> [u0 EXCEPT !.User = au.user, !.HasUser = au.hasUser,
                             !.Host = au.host, !.OmitHost = omitHost,
                             !.Path = sp.Path, !.RawPath = sp.RawPath]]

NoAuthority == [err |-> FALSE, hasUser |-> FALSE, user |-> "", host |-> ""]

\* parse, the authority: rest begins with "//"; the path starts at the next "/".
parseWithAuthority(u0, after, slash) ==
    parseFinish(u0, FALSE,
                parseAuthority(IF slash = 0 THEN after ELSE SubSeq(after, 1, slash - 1)),
                setPath(IF slash = 0 THEN "" ELSE From(after, slash)))

\* parse, after the query is cut off: rest is the text between scheme and query.
parseRest(u0, rest) ==
    IF ~HasPrefix(rest, "/") /\ u0.Scheme # ""
    THEN [err |-> FALSE, url |-> [u0 EXCEPT !.Opaque = rest]]
    ELSE IF ~HasPrefix(rest, "/") /\ Contains(Cut(rest, "/").before, ":")
    THEN ParseError
    ELSE IF (u0.Scheme # "" \/ ~HasPrefix(rest, "///")) /\ HasPrefix(rest, "//")
    THEN parseWithAuthority(u0, From(rest, 3), Index(From(rest, 3), "/"))
    ELSE parseFinish(u0, u0.Scheme # "" /\ HasPrefix(rest, "/"), NoAuthority,
                     setPath(rest))

\* parse, after getScheme: the scheme is lowered and the query is cut off.
parseQuery(scheme, rest, force) ==
    parseRest([EmptyURL EXCEPT !.Scheme = scheme, !.ForceQuery = force,
                               !.RawQuery = IF force THEN "" ELSE Cut(rest, "?").after],
              IF force THEN SubSeq(rest, 1, Len(rest) - 1) ELSE Cut(rest, "?").before)

parseScheme(gs) ==
    IF gs.err THEN ParseError
    ELSE parseQuery(ToLower(gs.scheme), gs.rest,
                    HasSuffix(gs.rest, "?") /\ Count(gs.rest, "?") = 1)

\* parse(rawURL, viaRequest = false): [err, url].
parse(rawURL) ==
    IF stringContainsCTLByte(rawURL) THEN ParseError
    ELSE IF rawURL = "*" THEN [err |-> FALSE, url |-> [EmptyURL EXCEPT !.Path = "*"]]
    ELSE parseScheme(getScheme(rawURL))

\* url.Parse, after the fragment is cut off and the rest is parsed.
parseFragment(p, frag, f) ==
    IF p.err THEN ParseError
    ELSE IF frag = "" THEN p
    ELSE IF f.err THEN ParseError
    ELSE [err |-> FALSE,
          url |-> [p.url EXCEPT !.Fragment = f.Fragment, !.RawFragment = f.RawFragment]]

parseCut(c) == parseFragment(parse(c.before), c.after, setFragment(c.after))

\* url.Parse: [err, url].
urlParse(rawURL) == parseCut(Cut(rawURL, "#"))

\* (*URL).EscapedPath
EscapedPath(u) ==
    IF /\ u.RawPath # ""
       /\ validEncoded(u.RawPath, "path")
       /\ ~unescapeFails(u.RawPath, "path")
       /\ unescapeValue(u.RawPath) = u.Path
    THEN u.RawPath
    ELSE IF u.Path = "*" THEN "*"
    ELSE escape(u.Path, "path")

\* (*URL).EscapedFragment
EscapedFragment(u) ==
    IF /\ u.RawFragment # ""
       /\ validEncoded(u.RawFragment, "fragment")
       /\ ~unescapeFails(u.RawFragment, "fragment")
       /\ unescapeValue(u.RawFragment) = u.Fragment
    THEN u.RawFragment
    ELSE escape(u.Fragment, "fragment")

\* (*URL).String, what precedes the path: scheme, "//", userinfo, host.
urlHead(u) ==
    (IF u.Scheme # "" THEN u.Scheme \o ":" ELSE "")
    \o (IF (u.Scheme # "" \/ u.Host # "" \/ u.HasUser)
           /\ ~(u.OmitHost /\ u.Host = "" /\ ~u.HasUser)
        THEN (IF u.Host # "" \/ u.Path # "" \/ u.HasUser THEN "//" ELSE "")
             \o (IF u.HasUser THEN u.User \o "@" ELSE "")
             \o (IF u.Host # "" THEN escape(u.Host, "host") ELSE "")
        ELSE "")

\* (*URL).String, the hierarchical part, given what precedes the path.
urlBody(u, head, path) ==
    head
    \o (IF path # "" /\ At(path, 1) # "/" /\ u.Host # "" THEN "/" ELSE "")
    \o (IF head = "" /\ Contains(Cut(path, "/").before, ":") THEN "./" ELSE "")
    \o path

\* (*URL).String
URLString(u) ==
    (IF u.Opaque # ""
     THEN (IF u.Scheme # "" THEN u.Scheme \o ":" ELSE "") \o u.Opaque
     ELSE urlBody(u, urlHead(u), EscapedPath(u)))
    \o (IF u.ForceQuery \/ u.RawQuery # "" THEN "?" \o u.RawQuery ELSE "")
    \o (IF u.Fragment # "" THEN "#" \o EscapedFragment(u) ELSE "")

\* One turn of the loop of resolvePath: dst and first after element elem.
resolveStep(dst, first, elem, index) ==
    IF elem = "." THEN [dst |-> dst, first |-> FALSE]
    ELSE IF elem = ".."
    THEN [dst |-> IF index = 0 THEN "/" ELSE "/" \o SubSeq(dst, 2, index),
          first |-> IF index = 0 THEN TRUE ELSE first]
    ELSE [dst |-> dst \o (IF first THEN "" ELSE "/") \o elem, first |-> FALSE]

\* The loop of resolvePath over the "/"-separated elements: [dst, elem].
RECURSIVE resolveElements(_, _)
resolveElements(c, st) ==
    IF c.found
    THEN resolveElements(Cut(c.after, "/"),
                         resolveStep(st.dst, st.first, c.before,
                                     LastIndex(From(st.dst, 2), "/")))
    ELSE [dst |-> resolveStep(st.dst, st.first, c.before,
                              LastIndex(From(st.dst, 2), "/")).dst,
          elem |-> c.before]

\* resolvePath, after the loop.
resolveEnd(r) == IF Len(r) > 1 /\ At(r, 2) = "/" THEN From(r, 2) ELSE r

resolveDots(res) ==
    resolveEnd(IF res.elem \in {".", ".."} THEN res.dst \o "/" ELSE res.dst)

resolveFull(full) ==
    IF full = "" THEN ""
    ELSE resolveDots(resolveElements(Cut(full, "/"), [dst |-> "/", first |-> TRUE]))

\* resolvePath(base, ref)
resolvePath(base, ref) ==
    resolveFull(IF ref = "" THEN base
                ELSE IF At(ref, 1) # "/"
                THEN SubSeq(base, 1, LastIndex(base, "/")) \o ref
                ELSE ref)

\* url.setPath(p) on a validly escaped p; the error is ignored.
putPath(url, sp) == [url EXCEPT !.Path = sp.Path, !.RawPath = sp.RawPath]

WithPath(url, p) == putPath(url, setPath(p))

\* ResolveReference, the copy of ref that takes the scheme of u.
withScheme(u, ref) == IF ref.Scheme = "" THEN [ref EXCEPT !.Scheme = u.Scheme] ELSE ref

\* ResolveReference, the empty reference: the query and fragment of u are kept.
withQuery(u, ref, url) ==
    IF ref.Path = "" /\ ~ref.ForceQuery /\ ref.RawQuery = ""
    THEN [url EXCEPT !.RawQuery = u.RawQuery,
                     !.Fragment = IF ref.Fragment = "" THEN u.Fragment ELSE @,
                     !.RawFragment = IF ref.Fragment = "" THEN u.RawFragment ELSE @]
    ELSE url

\* ResolveReference, the abs_path and rel_path cases.
resolveRelative(u, ref, url) ==
    IF ref.Path = "" /\ u.Opaque # ""
    THEN [url EXCEPT !.Opaque = u.Opaque, !.User = "", !.HasUser = FALSE,
                     !.Host = "", !.Path = ""]
    ELSE WithPath([url EXCEPT !.Host = u.Host, !.User = u.User, !.HasUser = u.HasUser],
                  resolvePath(EscapedPath(u), EscapedPath(ref)))

resolveCopy(u, ref, url) ==
    IF ref.Scheme # "" \/ ref.Host # "" \/ ref.HasUser
    THEN WithPath(url, resolvePath(EscapedPath(ref), ""))
    ELSE IF ref.Opaque # ""
    THEN [url EXCEPT !.User = "", !.HasUser = FALSE, !.Host = "", !.Path = ""]
    ELSE resolveRelative(u, ref, withQuery(u, ref, url))

\* (*URL).ResolveReference
ResolveReference(u, ref) == resolveCopy(u, ref, withScheme(u, ref))

\* A resolveURL that gives up on a reference that does not parse.
resolveParsedStrict(base, ref, href) ==
    IF base.err \/ ref.err THEN ""
    ELSE URLString(ResolveReference(base.url, ref.url))

(***************************************************************************)
(* resolveURL (main.go:353-365): the reference as written when the base or *)
(* the reference does not parse, else the resolved reference as a string.  *)
(***************************************************************************)
resolveParsed(base, ref, href) ==
    IF base.err THEN href
    ELSE IF ref.err THEN href
    ELSE URLString(ResolveReference(base.url, ref.url))

resolveURL(baseURL, href) == resolveParsed(urlParse(baseURL), urlParse(href), href)

(***************************************************************************)
(* Package net/http: response headers.  A header map is a function from    *)
(* canonical keys to the first value stored under the key.                 *)
(***************************************************************************)
ToUpperByte(c) ==
    IF Contains(LowerLetters, c) THEN At(UpperLetters, Index(LowerLetters, c)) ELSE c

\* textproto.CanonicalMIMEHeaderKey: the first letter and every letter after a
\* hyphen in upper case, the others in lower case.
RECURSIVE canonicalFrom(_, _)
canonicalFrom(s, upper) ==
    IF s = "" THEN ""
    ELSE (IF upper THEN ToUpperByte(At(s, 1)) ELSE ToLowerByte(At(s, 1)))
         \o canonicalFrom(From(s, 2), At(s, 1) = "-")

CanonicalMIMEHeaderKey(key) == canonicalFrom(key, TRUE)

\* http.Header.Get
HeaderGet(header, key) ==
    LET k == CanonicalMIMEHeaderKey(key)
    IN  IF k \in DOMAIN header THEN header[k] ELSE ""

\* strconv.Itoa for a non-negative number (the %d of a status code).
RECURSIVE Itoa(_)
Itoa(n) == IF n < 10 THEN At(Digits, n + 1) ELSE Itoa(n \div 10) \o At(Digits, (n % 10) + 1)

\* A classifier that looks for Akamai before Cloudflare.
detectAkamaiFirst(header) ==
    IF \/ HeaderGet(header, "X-Akamai-Transformed") # ""
       \/ HeaderGet(header, "X-Akamai-Session-Info") # ""
    THEN "Akamai"
    ELSE IF HeaderGet(header, "Server") = "cloudflare" \/ HeaderGet(header, "CF-Ray") # ""
    THEN "Cloudflare"
    ELSE IF \/ HeaderGet(header, "X-Amzn-RequestId") # ""
            \/ HeaderGet(header, "X-Amzn-Trace-Id") # ""
    THEN "AWS WAF"
    ELSE IF HeaderGet(header, "X-Iinfo") # "" \/ HeaderGet(header, "X-CDN") = "Incapsula"
    THEN "Imperva/Incapsula"
    ELSE IF HeaderGet(header, "X-DataDome") # ""
    THEN "DataDome"
    ELSE IF \/ HeaderGet(header, "X-Sucuri-ID") # ""
            \/ HeaderGet(header, "X-Sucuri-Cache") # ""
    THEN "Sucuri"
    ELSE IF Contains(HeaderGet(header, "Server"), "PerimeterX")
    THEN "PerimeterX"
    ELSE ""

(***************************************************************************)
(* detectAntiBotService (main.go:367-391)                                  *)
(***************************************************************************)
detectAntiBotService(header) ==
    IF HeaderGet(header, "Server") = "cloudflare" \/ HeaderGet(header, "CF-Ray") # ""
    THEN "Cloudflare"
    ELSE IF \/ HeaderGet(header, "X-Akamai-Transformed") # ""
            \/ HeaderGet(header, "X-Akamai-Session-Info") # ""
    THEN "Akamai"
    ELSE IF \/ HeaderGet(header, "X-Amzn-RequestId") # ""
            \/ HeaderGet(header, "X-Amzn-Trace-Id") # ""
    THEN "AWS WAF"
    ELSE IF HeaderGet(header, "X-Iinfo") # "" \/ HeaderGet(header, "X-CDN") = "Incapsula"
    THEN "Imperva/Incapsula"
    ELSE IF HeaderGet(header, "X-DataDome") # ""
    THEN "DataDome"
    ELSE IF \/ HeaderGet(header, "X-Sucuri-ID") # ""
            \/ HeaderGet(header, "X-Sucuri-Cache") # ""
    THEN "Sucuri"
    ELSE IF Contains(HeaderGet(header, "Server"), "PerimeterX")
    THEN "PerimeterX"
    ELSE ""

(***************************************************************************)
(* The parsed tree (golang.org/x/net/html).  A document is the sequence of *)
(* its nodes in document order, each with its depth; node 1 is the         *)
(* DocumentNode at depth 0.  FirstChild/NextSibling follow from the depths.*)
(***************************************************************************)
Attribute(k, v) == [Key |-> k, Val |-> v]

ElementNode(tag, attrs) == [Type |-> "element", Data |-> tag, Attr |-> attrs]

TextNode(text) == [Type |-> "text", Data |-> text, Attr |-> <<>>]

DocumentNode == [Type |-> "document", Data |-> "", Attr |-> <<>>, Depth |-> 0]

AtDepth(node, d) ==
    [Type |-> node.Type, Data |-> node.Data, Attr |-> node.Attr, Depth |-> d]

\* The children of node i, first to last (the FirstChild/NextSibling chain).
ChildSet(doc, i) ==
    {j \in (i + 1)..Len(doc) :
        /\ doc[j].Depth = doc[i].Depth + 1
        /\ \A k \in (i + 1)..j : doc[k].Depth > doc[i].Depth}

RECURSIVE Ascending(_)
Ascending(S) ==
    IF S = {} THEN <<>>
    ELSE LET m == CHOOSE x \in S : \A y \in S : x <= y
         IN  <<m>> \o Ascending(S \ {m})

Children(doc, i) == Ascending(ChildSet(doc, i))

(***************************************************************************)
(* getTextContent (main.go:341-351)                                        *)
(***************************************************************************)
RECURSIVE getTextContent(_, _)
getTextContent(doc, n) ==
    LET kids == Children(doc, n)
        text[k \in 0..Len(kids)] ==
            IF k = 0 THEN "" ELSE text[k - 1] \o getTextContent(doc, kids[k])
    IN  IF doc[n].Type = "text" THEN doc[n].Data ELSE text[Len(kids)]

(***************************************************************************)
(* ScrapedData and the extract functions (main.go:20-42, 209-215, 251-339) *)
(***************************************************************************)
\* make(map[string]string)
EmptyMap == [k \in {} |-> ""]

NewScrapedData(targetURL) ==
    [URL |-> targetURL, Title |-> "", Description |-> "", Keywords |-> "",
     Links |-> <<>>, MetaTags |-> EmptyMap, Images |-> <<>>, Headings |-> <<>>]

\* A map that keeps the first value written under a key.
MapKeep(m, key, val) ==
    [k \in (DOMAIN m) \cup {key} |-> IF k \in DOMAIN m THEN m[k] ELSE val]

\* m[key] = val on a Go map: the key is added or its value overwritten.
\* A map is a function on its keys; the empty map is the function on no key.
MapSet(m, key, val) ==
    [k \in (DOMAIN m) \cup {key} |-> IF k = key THEN val ELSE m[k]]

\* The value left by a loop over all attributes that assigns on every match.
LastAttr(attrs, key) ==
    LET v[i \in 0..Len(attrs)] ==
            IF i = 0 THEN ""
            ELSE IF attrs[i].Key = key THEN attrs[i].Val ELSE v[i - 1]
    IN  v[Len(attrs)]

\* An extractMetaTag that fills description and keywords from the key the
\* element is stored under, be it its name or its property.
extractMetaTagByKey(doc, n, data) ==
    LET name == LastAttr(doc[n].Attr, "name")
        property == LastAttr(doc[n].Attr, "property")
        content == LastAttr(doc[n].Attr, "content")
        key == IF name # "" THEN name ELSE property
    IN  IF key # ""
        THEN [data EXCEPT
                !.MetaTags = MapSet(@, key, content),
                !.Description = IF key = "description" THEN content ELSE @,
                !.Keywords = IF key = "keywords" THEN content ELSE @]
        ELSE data

\* A lookup that goes on after the first match and keeps the last one.
FirstAttrOverwritten(attrs, key) == LastAttr(attrs, key)

\* The value left by a loop that assigns on the first match and breaks.
FirstAttr(attrs, key) ==
    LET hits == {i \in 1..Len(attrs) : attrs[i].Key = key}
    IN  IF hits = {} THEN ""
        ELSE attrs[CHOOSE i \in hits : \A j \in hits : i <= j].Val

extractMetaTag(doc, n, data) ==
    LET name == LastAttr(doc[n].Attr, "name")
        property == LastAttr(doc[n].Attr, "property")
        content == LastAttr(doc[n].Attr, "content")
    IN  IF name # ""
        THEN [data EXCEPT
                !.MetaTags = MapSet(@, name, content),
                !.Description = IF name = "description" THEN content ELSE @,
                !.Keywords = IF name = "keywords" THEN content ELSE @]
        ELSE IF property # ""
        THEN [data EXCEPT !.MetaTags = MapSet(@, property, content)]
        ELSE data

\* An extractLink that records the element whatever its href.
extractLinkAlways(doc, n, data, baseURL) ==
    [data EXCEPT !.Links =
        Append(@, [Href |-> resolveURL(baseURL, FirstAttr(doc[n].Attr, "href")),
                   Text |-> TrimSpace(getTextContent(doc, n))])]

extractLink(doc, n, data, baseURL) ==
    LET href == FirstAttr(doc[n].Attr, "href")
    IN  IF href # ""
        THEN [data EXCEPT !.Links =
                Append(@, [Href |-> resolveURL(baseURL, href),
                           Text |-> TrimSpace(getTextContent(doc, n))])]
        ELSE data

extractImage(doc, n, data, baseURL) ==
    LET src == FirstAttr(doc[n].Attr, "src")
    IN  IF src # ""
        THEN [data EXCEPT !.Images = Append(@, resolveURL(baseURL, src))]
        ELSE data

HeadingLevel(tag) ==
    CASE tag = "h1" -> 1 [] tag = "h2" -> 2 [] tag = "h3" -> 3
      [] tag = "h4" -> 4 [] tag = "h5" -> 5 [] tag = "h6" -> 6
      [] OTHER -> 0

\* An extractHeading that stores the text as it stands in the tree.
extractHeadingUntrimmed(doc, n, data) ==
    IF TrimSpace(getTextContent(doc, n)) # ""
    THEN [data EXCEPT !.Headings =
            Append(@, [Level |-> HeadingLevel(doc[n].Data),
                       Text |-> getTextContent(doc, n)])]
    ELSE data

extractHeading(doc, n, data) ==
    LET text == TrimSpace(getTextContent(doc, n))
    IN  IF text # ""
        THEN [data EXCEPT !.Headings =
                Append(@, [Level |-> HeadingLevel(doc[n].Data), Text |-> text])]
        ELSE data

\* The switch of extractData (main.go:230-243) on one node.
\* An extractData whose title element leaves the title alone when its own
\* text is empty.
extractNodeKeepTitle(doc, n, data, baseURL) ==
    IF doc[n].Type # "element" THEN data
    ELSE IF doc[n].Data = "title"
    THEN IF getTextContent(doc, n) = "" THEN data
         ELSE [data EXCEPT !.Title = getTextContent(doc, n)]
    ELSE IF doc[n].Data = "meta" THEN extractMetaTag(doc, n, data)
    ELSE IF doc[n].Data = "a" THEN extractLink(doc, n, data, baseURL)
    ELSE IF doc[n].Data = "img" THEN extractImage(doc, n, data, baseURL)
    ELSE IF doc[n].Data \in {"h1", "h2", "h3", "h4", "h5", "h6"}
    THEN extractHeading(doc, n, data)
    ELSE data

extractNode(doc, n, data, baseURL) ==
    IF doc[n].Type # "element" THEN data
    ELSE IF doc[n].Data = "title" THEN [data EXCEPT !.Title = getTextContent(doc, n)]
    ELSE IF doc[n].Data = "meta" THEN extractMetaTag(doc, n, data)
    ELSE IF doc[n].Data = "a" THEN extractLink(doc, n, data, baseURL)
    ELSE IF doc[n].Data = "img" THEN extractImage(doc, n, data, baseURL)
    ELSE IF doc[n].Data \in {"h1", "h2", "h3", "h4", "h5", "h6"}
    THEN extractHeading(doc, n, data)
    ELSE data

(***************************************************************************)
(* The state.  Every /scrape request is served by its own invocation of    *)
(* scrapeHandler; the variables below are indexed by the invocation.       *)
(***************************************************************************)
VARIABLES
    debugMode,  \* the -debug flag (main.go:18, 52)
    pc,         \* where each invocation stands
    req,        \* the incoming request: its method and its url parameter
    remote,     \* what the network and the origin server hold for the request
    attempts,   \* the calls of client.Do made so far
    resp,       \* the response client.Do returned, if any
    classified, \* what each call of detectAntiBotService made so far returned
    parsed,     \* the calls of html.Parse made so far
    data,       \* the ScrapedData under construction, if any
    stack,      \* the nodes extractData has still to visit, next first
    visited,    \* the nodes extractData has visited, in order
    ret,        \* what scrapeWebPage returned, if it has
    reply,      \* the replies written to the ResponseWriter
    logged      \* the log lines written

vars == <<debugMode, pc, req, remote, attempts, resp, classified, parsed, data,
          stack, visited, ret, reply, logged>>

\* A value that may be absent is a sequence of length 0 or 1.
None == <<>>
Some(x) == <<x>>

StatusOK == 200
StatusBadRequest == 400
StatusMethodNotAllowed == 405
StatusInternalServerError == 500

\* sendError (main.go:393-400): the reply it writes.
sendError(statusCode, errorType, message) ==
    [Status |-> statusCode, Error |-> errorType, Message |-> message, Data |-> None]

\* The successful reply (main.go:112-115).
sendData(d) == [Status |-> StatusOK, Error |-> "", Message |-> "", Data |-> Some(d)]

\* A validation that lets every scheme through.
invalidURLAnyScheme(parsedURL) == parsedURL.err

\* The validation of scrapeHandler (main.go:98-99) on what url.Parse returned:
\* whether the url is refused.
invalidURL(parsedURL) ==
    parsedURL.err \/ (parsedURL.url.Scheme # "http" /\ parsedURL.url.Scheme # "https")

\* scrapeWebPage returns (nil, err) and scrapeHandler answers it (main.go:106-110).
ScrapeFails(p, err, lines) ==
    /\ ret' = [ret EXCEPT ![p] = Some([data |-> None, err |-> Some(err)])]
    /\ reply' = [reply EXCEPT ![p] =
            Append(@, sendError(StatusInternalServerError, "scrape_failed",
                                "Failed to scrape URL: " \o err))]
    /\ logged' = [logged EXCEPT ![p] = @ \o lines \o <<"Error scraping">>]
    /\ pc' = [pc EXCEPT ![p] = "done"]

\* scrapeHandler answers before scrapeWebPage is called (main.go:85-102).
Rejects(p, statusCode, errorType, message) ==
    /\ reply' = [reply EXCEPT ![p] = Append(@, sendError(statusCode, errorType, message))]
    /\ pc' = [pc EXCEPT ![p] = "done"]
    /\ UNCHANGED <<ret, logged, attempts>>

\* The error of client.Do, as url.Error prints it.
DoError(targetURL, cause) == "Get \"" \o targetURL \o "\": " \o cause

(***************************************************************************)
(* scrapeWebPage up to the call of client.Do (main.go:118-144).            *)
(* http.NewRequestWithContext parses targetURL as url.Parse does, so it    *)
(* gets parsedURL again.  client.Do refuses a url without a host before    *)
(* anything is sent.                                                       *)
(***************************************************************************)
scrapeWebPage(p, targetURL, parsedURL) ==
    IF parsedURL.err
    THEN /\ ScrapeFails(p, "failed to create request: parse", <<>>)
         /\ UNCHANGED attempts
    ELSE /\ attempts' = [attempts EXCEPT ![p] = @ + 1]
         /\ IF parsedURL.url.Host = ""
            THEN ScrapeFails(p, "failed to fetch URL: "
                     \o DoError(targetURL, "http: no Host in request URL"), <<>>)
            ELSE /\ pc' = [pc EXCEPT ![p] = "fetching"]
                 /\ UNCHANGED <<ret, reply, logged>>

\* A handler that looks at the url parameter before the method.
scrapeHandlerURLFirst(p, method, targetURL, parsedURL) ==
    IF targetURL = ""
    THEN Rejects(p, StatusBadRequest, "missing_url", "URL parameter is required")
    ELSE IF method # "GET"
    THEN Rejects(p, StatusMethodNotAllowed, "method_not_allowed",
                 "Only GET method is allowed")
    ELSE IF invalidURL(parsedURL)
    THEN Rejects(p, StatusBadRequest, "invalid_url",
                 "URL must be a valid http or https URL")
    ELSE scrapeWebPage(p, targetURL, parsedURL)

(***************************************************************************)
(* scrapeHandler (main.go:83-105) on a request with the given method and   *)
(* url parameter; parsedURL is what url.Parse returns for the parameter.   *)
(***************************************************************************)
scrapeHandler(p, method, targetURL, parsedURL) ==
    IF method # "GET"
    THEN Rejects(p, StatusMethodNotAllowed, "method_not_allowed",
                 "Only GET method is allowed")
    ELSE IF targetURL = ""
    THEN Rejects(p, StatusBadRequest, "missing_url", "URL parameter is required")
    ELSE IF invalidURL(parsedURL)
    THEN Rejects(p, StatusBadRequest, "invalid_url",
                 "URL must be a valid http or https URL")
    ELSE scrapeWebPage(p, targetURL, parsedURL)

(***************************************************************************)
(* A request is handled up to the point where client.Do waits for the      *)
(* network.                                                                *)
(***************************************************************************)
HandleRequest(p) ==
    /\ pc[p] = "handler"
    /\ scrapeHandler(p, req[p].method, req[p].url, urlParse(req[p].url))
    /\ UNCHANGED <<debugMode, req, remote, resp, classified, parsed, data, stack, visited>>

\* A fetch that is tried a second time before it is given up.
FetchRetries(p) ==
    /\ pc[p] = "fetching"
    /\ remote[p].kind = "error"
    /\ attempts' = [attempts EXCEPT ![p] = @ + 1]
    /\ ScrapeFails(p, "failed to fetch URL: " \o DoError(req[p].url, remote[p].cause), <<>>)
    /\ UNCHANGED <<debugMode, req, remote, resp, classified, parsed, data, stack, visited>>

(***************************************************************************)
(* client.Do fails: the connection cannot be made (main.go:141-144).       *)
(***************************************************************************)
FetchFails(p) ==
    /\ pc[p] = "fetching"
    /\ remote[p].kind = "error"
    /\ ScrapeFails(p, "failed to fetch URL: " \o DoError(req[p].url, remote[p].cause), <<>>)
    /\ UNCHANGED <<debugMode, req, remote, attempts, resp, classified, parsed, data,
                   stack, visited>>

\* A deadline that never fires: the fetch waits on.
DeadlineIgnored(p) ==
    /\ pc[p] = "fetching"
    /\ remote[p].kind = "hang"
    /\ UNCHANGED vars

(***************************************************************************)
(* The 15 second deadline fires while client.Do waits (main.go:120, 138).  *)
(***************************************************************************)
DeadlineExceeded(p) ==
    /\ pc[p] = "fetching"
    /\ remote[p].kind = "hang"
    /\ ScrapeFails(p, "failed to fetch URL: "
            \o DoError(req[p].url, "context deadline exceeded"), <<>>)
    /\ UNCHANGED <<debugMode, req, remote, attempts, resp, classified, parsed, data,
                   stack, visited>>

\* The lines logged for a refused status (main.go:152-167).
BlockedLines(antiBotInfo) ==
    <<"Request blocked">>
    \o (IF debugMode THEN <<"Response Headers">> ELSE <<>>)
    \o (IF antiBotInfo # "" THEN <<"Anti-bot service detected">> ELSE <<>>)

\* A status error that leaves the label out.
StatusErrorMsgNoLabel(statusCode, antiBotInfo) ==
    "unexpected status code: " \o Itoa(statusCode)

\* The message of the status error (main.go:169-172).
StatusErrorMsg(statusCode, antiBotInfo) ==
    "unexpected status code: " \o Itoa(statusCode)
    \o (IF antiBotInfo # "" THEN " (detected: " \o antiBotInfo \o ")" ELSE "")

\* Checks whose status error tells in debug mode that the headers were logged.
checkResponseVerbose(p, statusCode, contentType, antiBotInfo) ==
    IF statusCode # StatusOK
    THEN /\ classified' = [classified EXCEPT ![p] = Append(@, antiBotInfo)]
         /\ ScrapeFails(p, StatusErrorMsg(statusCode, antiBotInfo)
                            \o (IF debugMode THEN " (headers logged)" ELSE ""),
                        BlockedLines(antiBotInfo))
    ELSE IF ~Contains(contentType, "text/html")
    THEN /\ ScrapeFails(p, "content type is not HTML: " \o contentType, <<>>)
         /\ UNCHANGED classified
    ELSE /\ pc' = [pc EXCEPT ![p] = "reading"]
         /\ UNCHANGED <<classified, ret, reply, logged>>

(***************************************************************************)
(* The checks of scrapeWebPage on the response (main.go:147-180);          *)
(* antiBotInfo is what detectAntiBotService returns for it, which is       *)
(* called only when the status is refused.                                 *)
(***************************************************************************)
checkResponse(p, statusCode, contentType, antiBotInfo) ==
    IF statusCode # StatusOK
    THEN /\ classified' = [classified EXCEPT ![p] = Append(@, antiBotInfo)]
         /\ ScrapeFails(p, StatusErrorMsg(statusCode, antiBotInfo),
                        BlockedLines(antiBotInfo))
    ELSE IF ~Contains(contentType, "text/html")
    THEN /\ ScrapeFails(p, "content type is not HTML: " \o contentType, <<>>)
         /\ UNCHANGED classified
    ELSE /\ pc' = [pc EXCEPT ![p] = "reading"]
         /\ UNCHANGED <<classified, ret, reply, logged>>

(***************************************************************************)
(* client.Do returns a response (main.go:141-145), which is checked.       *)
(***************************************************************************)
ReceiveResponse(p) ==
    /\ pc[p] = "fetching"
    /\ remote[p].kind = "response"
    /\ resp' = [resp EXCEPT ![p] =
            Some([StatusCode |-> remote[p].status, Header |-> remote[p].header])]
    /\ checkResponse(p, remote[p].status, HeaderGet(remote[p].header, "Content-Type"),
                     detectAntiBotService(remote[p].header))
    /\ UNCHANGED <<debugMode, req, remote, attempts, parsed, data, stack, visited>>

(***************************************************************************)
(* io.ReadAll fails on the response body (main.go:183-186).                *)
(***************************************************************************)
ReadFails(p) ==
    /\ pc[p] = "reading"
    /\ remote[p].readErr
    /\ ScrapeFails(p, "failed to read response body: " \o remote[p].cause, <<>>)
    /\ UNCHANGED <<debugMode, req, remote, attempts, resp, classified, parsed, data,
                   stack, visited>>

\* The lines logged after a successful fetch in debug mode (main.go:189-200).
FetchedLines ==
    IF debugMode
    THEN <<"Successfully fetched", "Response size", "Content-Type", "HTML Preview">>
    ELSE <<>>

(***************************************************************************)
(* The body is read and html.Parse rejects it (main.go:183-206).           *)
(***************************************************************************)
ParseFails(p) ==
    /\ pc[p] = "reading"
    /\ ~remote[p].readErr
    /\ remote[p].parseErr
    /\ parsed' = [parsed EXCEPT ![p] = @ + 1]
    /\ ScrapeFails(p, "failed to parse HTML: " \o remote[p].cause, FetchedLines)
    /\ UNCHANGED <<debugMode, req, remote, attempts, resp, classified, data, stack,
                   visited>>

\* A ScrapedData kept in one package-level variable: making it anew replaces
\* the data of every invocation that is extracting.
BeginExtractShared(p) ==
    /\ pc[p] = "reading"
    /\ ~remote[p].readErr
    /\ ~remote[p].parseErr
    /\ parsed' = [parsed EXCEPT ![p] = @ + 1]
    /\ data' = [q \in DOMAIN data |->
                    IF q = p \/ data[q] # None
                    THEN Some(NewScrapedData(req[p].url)) ELSE data[q]]
    /\ stack' = [stack EXCEPT ![p] = <<1>>]
    /\ logged' = [logged EXCEPT ![p] = @ \o FetchedLines]
    /\ pc' = [pc EXCEPT ![p] = "extracting"]
    /\ UNCHANGED <<debugMode, req, remote, attempts, resp, classified, visited, ret,
                   reply>>

(***************************************************************************)
(* The body is read and parsed, the empty ScrapedData is made and          *)
(* extractData is called on the root (main.go:183-218).                    *)
(***************************************************************************)
BeginExtract(p) ==
    /\ pc[p] = "reading"
    /\ ~remote[p].readErr
    /\ ~remote[p].parseErr
    /\ parsed' = [parsed EXCEPT ![p] = @ + 1]
    /\ data' = [data EXCEPT ![p] = Some(NewScrapedData(req[p].url))]
    /\ stack' = [stack EXCEPT ![p] = <<1>>]
    /\ logged' = [logged EXCEPT ![p] = @ \o FetchedLines]
    /\ pc' = [pc EXCEPT ![p] = "extracting"]
    /\ UNCHANGED <<debugMode, req, remote, attempts, resp, classified, visited, ret,
                   reply>>

\* An extractData that does not go into the element it has just recorded.
VisitPruning(p) ==
    /\ pc[p] = "extracting"
    /\ stack[p] # <<>>
    /\ LET n == Head(stack[p])
           doc == remote[p].doc
           matched == /\ doc[n].Type = "element"
                      /\ doc[n].Data \in {"title", "a", "h1", "h2", "h3", "h4", "h5", "h6"}
       IN  /\ data' = [data EXCEPT ![p] =
                    Some(extractNode(doc, n, data[p][1], req[p].url))]
           /\ stack' = [stack EXCEPT ![p] =
                    (IF matched THEN <<>> ELSE Children(doc, n)) \o Tail(stack[p])]
           /\ visited' = [visited EXCEPT ![p] = Append(@, n)]
    /\ UNCHANGED <<debugMode, pc, req, remote, attempts, resp, classified, parsed, ret,
                   reply, logged>>

(***************************************************************************)
(* One call of extractData (main.go:229-249): the node is handled, then    *)
(* its children are visited first to last before anything that was        *)
(* pending.                                                                *)
(***************************************************************************)
Visit(p) ==
    /\ pc[p] = "extracting"
    /\ stack[p] # <<>>
    /\ LET n == Head(stack[p])
           doc == remote[p].doc
       IN  /\ data' = [data EXCEPT ![p] =
                    Some(extractNode(doc, n, data[p][1], req[p].url))]
           /\ stack' = [stack EXCEPT ![p] = Children(doc, n) \o Tail(stack[p])]
           /\ visited' = [visited EXCEPT ![p] = Append(@, n)]
    /\ UNCHANGED <<debugMode, pc, req, remote, attempts, resp, classified, parsed, ret,
                   reply, logged>>

\* A scrapeWebPage that may return the data before extractData is through.
ReturnDataEarly(p) ==
    /\ pc[p] = "extracting"
    /\ ret' = [ret EXCEPT ![p] = Some([data |-> data[p], err |-> None])]
    /\ reply' = [reply EXCEPT ![p] = Append(@, sendData(data[p][1]))]
    /\ logged' = [logged EXCEPT ![p] =
            @ \o (IF debugMode THEN <<"Extraction results">> ELSE <<>>)]
    /\ pc' = [pc EXCEPT ![p] = "done"]
    /\ UNCHANGED <<debugMode, req, remote, attempts, resp, classified, parsed, data,
                   stack, visited>>

(***************************************************************************)
(* extractData has returned: scrapeWebPage returns the data and            *)
(* scrapeHandler sends it (main.go:220-226, 112-115).                      *)
(***************************************************************************)
ReturnData(p) ==
    /\ pc[p] = "extracting"
    /\ stack[p] = <<>>
    /\ ret' = [ret EXCEPT ![p] = Some([data |-> data[p], err |-> None])]
    /\ reply' = [reply EXCEPT ![p] = Append(@, sendData(data[p][1]))]
    /\ logged' = [logged EXCEPT ![p] =
            @ \o (IF debugMode THEN <<"Extraction results">> ELSE <<>>)]
    /\ pc' = [pc EXCEPT ![p] = "done"]
    /\ UNCHANGED <<debugMode, req, remote, attempts, resp, classified, parsed, data,
                   stack, visited>>

(***************************************************************************)
(* The inputs: requests, network outcomes, responses and documents.        *)
(***************************************************************************)
NumProcs == 2
MaxHeaders == 2
MaxLinkNodes == 2
MaxMetaNodes == 3
MaxTreeNodes == 3

Procs == 1..NumProcs

Methods == {"GET", "POST", "HEAD"}

\* Values of the url parameter, as r.URL.Query().Get returns them.
URLInputs ==
    {"", "http://h/p/", "https://h/", "HTTP://h/p", "hTTpS://H/", "http://h",
     "http://h:80/x", "http://h/p?q=1#f", "http://h/a b", "https://u@h/p",
     "http:", "https:", "http:/p", "http:///p", "https:///path", "http:h",
     "http:?q", "http://", "https://#f",
     "ftp://h/f", "file:///etc/passwd", "javascript:alert(1)", "mailto:m@h",
     "httpx://h", "htt://h", "ws://h", "not-a-valid-url", "h/p", "//h/p", "/p",
     "www.h.com", "http//h", "*",
     ":http://h", "1http://h", " http://h", "http://h x/", "http://[::1",
     "http://h:x", "http://%zz", "http://h/%zz", "http://h/p#%zz", "\thttp://h",
     "http://h/\n", "h:1/p"}

\* Page urls the documents are extracted under.
BaseURLs == {"http://h/p/", "http://ex.com/p/", "https://h/a/b?q=1", "http://h"}

DefaultURL == "http://h/p/"

Statuses == {200, 201, 204, 206, 299, 304, 403, 404, 429, 500, 503}

\* Content-Type values; "" stands for a response without the header.
ContentTypes ==
    {"", "text/html", "text/html; charset=UTF-8", "application/xhtml+xml,text/html",
     "application/json", "text/plain", "Text/HTML", "text/htm"}

\* Header lines the origin or a protection service in front of it may add.
HeaderLines ==
    {<<"Server", "cloudflare">>, <<"Server", "Cloudflare">>, <<"Server", "nginx">>,
     <<"Server", "PerimeterX">>, <<"Server", "px PerimeterX/2">>,
     <<"Cf-Ray", "abc">>,
     <<"X-Akamai-Transformed", "9">>, <<"X-Akamai-Session-Info", "s">>,
     <<"X-Amzn-Requestid", "r">>, <<"X-Amzn-Trace-Id", "t">>,
     <<"X-Iinfo", "i">>, <<"X-Cdn", "Incapsula">>, <<"X-Cdn", "other">>,
     <<"X-Datadome", "d">>, <<"X-Datadome", "">>,
     <<"X-Sucuri-Id", "1">>, <<"X-Sucuri-Cache", "c">>,
     <<"X-Powered-By", "php">>}

\* The sets of at most n of these lines, no key twice.
RECURSIVE HeaderPicks(_)
HeaderPicks(n) ==
    IF n = 0 THEN {{}}
    ELSE LET less == HeaderPicks(n - 1)
         IN  less \cup {L \cup {l} : <<L, l>> \in
                            {<<L, l>> \in less \X HeaderLines :
                                \A a \in L : a[1] # l[1]}}

\* The header maps of at most MaxHeaders lines.
HeaderSets ==
    {[k \in {l[1] : l \in L} |-> (CHOOSE l \in L : l[1] = k)[2]] :
        L \in HeaderPicks(MaxHeaders)}

WithContentType(header, contentType) ==
    IF contentType = "" THEN header
    ELSE [k \in (DOMAIN header) \cup {"Content-Type"} |->
            IF k = "Content-Type" THEN contentType ELSE header[k]]

NoHeaders == [k \in {} |-> ""]

\* Whether the parser can give the node children: a text node has none, and
\* meta and img are void elements.
CanHaveChildren(node) == node.Type = "element" /\ node.Data \notin {"meta", "img"}

\* The forests of exactly n nodes over the templates, in document order.
RECURSIVE Forests(_, _, _)
Forests(templates, n, maxDepth) ==
    IF n = 0 THEN {<<>>}
    ELSE {Append(f, AtDepth(t, d)) :
            <<f, t, d>> \in
                {<<f, t, d>> \in Forests(templates, n - 1, maxDepth) \X templates
                                    \X (1..maxDepth) :
                    IF f = <<>> THEN d = 1
                    ELSE /\ d <= f[Len(f)].Depth + 1
                         /\ d = f[Len(f)].Depth + 1 => CanHaveChildren(f[Len(f)])}}

DocsOver(templates, maxNodes, maxDepth) ==
    UNION {{<<DocumentNode>> \o f : f \in Forests(templates, n, maxDepth)} :
            n \in 0..maxNodes}

\* href and src values.
References ==
    {"/x", "a.html", "../y", "#top", "//o/p", "https://o/q?z", "mailto:m",
     "a b", "%zz", ":x", "1:x", "http://[::1"}

\* One a or img element with each reference.
ReferenceTemplates ==
    {ElementNode("a", <<Attribute("href", r)>>) : r \in References}
    \cup {ElementNode("img", <<Attribute("src", r)>>) : r \in References}

LinkTemplates ==
    {ElementNode("a", <<Attribute("href", r)>>) : r \in {"/x", "a.html", "%zz", ":x"}}
    \cup {ElementNode("img", <<Attribute("src", r)>>) : r \in {"i.png", "%zz"}}

MetaTemplates ==
    {ElementNode("meta", <<Attribute("name", "description"), Attribute("content", c)>>) :
        c \in {"A", "B"}}
    \cup {ElementNode("meta", <<Attribute("name", "keywords"),
                                Attribute("content", "A")>>),
          ElementNode("meta", <<Attribute("property", "description"),
                                Attribute("content", "C")>>),
          ElementNode("meta", <<Attribute("name", "author"),
                                Attribute("property", "og:title"),
                                Attribute("content", "A"),
                                Attribute("content", "C")>>),
          ElementNode("meta", <<Attribute("name", "description")>>)}

TreeTemplates ==
    {ElementNode("title", <<>>), ElementNode("h2", <<>>),
     ElementNode("a", <<Attribute("href", "a.html")>>),
     TextNode("T"), TextNode("  ")}

ReferenceDocs == DocsOver(ReferenceTemplates, 1, 1)
LinkDocs == DocsOver(LinkTemplates, MaxLinkNodes, 1)
MetaDocs == DocsOver(MetaTemplates, MaxMetaNodes, 1)
TreeDocs == DocsOver(TreeTemplates, MaxTreeNodes, MaxTreeNodes)

\* <title>T</title><h1>H</h1><img src="i.png"><a href="a.html">A</a>
SamplePage ==
    <<DocumentNode,
      AtDepth(ElementNode("title", <<>>), 1), AtDepth(TextNode("T"), 2),
      AtDepth(ElementNode("h1", <<>>), 1), AtDepth(TextNode("H"), 2),
      AtDepth(ElementNode("img", <<Attribute("src", "i.png")>>), 1),
      AtDepth(ElementNode("a", <<Attribute("href", "a.html")>>), 1),
      AtDepth(TextNode("A"), 2)>>

EmptyPage == <<DocumentNode>>

\* The origin answers with a response.
Responds(statusCode, header, readErr, parseErr, doc) ==
    [kind |-> "response", status |-> statusCode, header |-> header,
     cause |-> IF readErr THEN "unexpected EOF" ELSE IF parseErr THEN "read error" ELSE "",
     readErr |-> readErr, parseErr |-> parseErr, doc |-> doc]

\* The connection fails, or nothing answers before the deadline.
NoResponse(kind, cause) ==
    [kind |-> kind, status |-> 0, header |-> NoHeaders, cause |-> cause,
     readErr |-> FALSE, parseErr |-> FALSE, doc |-> EmptyPage]

Serves(doc) == Responds(StatusOK, WithContentType(NoHeaders, "text/html"), FALSE, FALSE, doc)

BasicRemotes ==
    {Serves(SamplePage),
     NoResponse("error", "dial tcp: connection refused"),
     NoResponse("hang", ""),
     Responds(503, WithContentType([k \in {"Cf-Ray"} |-> "abc"], "text/html"),
              FALSE, FALSE, EmptyPage),
     Responds(StatusOK, WithContentType(NoHeaders, "application/json"),
              FALSE, FALSE, EmptyPage),
     Responds(StatusOK, WithContentType(NoHeaders, "text/html"), TRUE, FALSE, EmptyPage),
     Responds(StatusOK, WithContentType(NoHeaders, "text/html"), FALSE, TRUE, EmptyPage)}

\* Every status with every content type, and the statuses below with every
\* header map.
ClassifiedStatuses == {200, 201, 403, 503}

ResponseRemotes ==
    {Responds(st, WithContentType(NoHeaders, ct), FALSE, FALSE, EmptyPage) :
        st \in Statuses, ct \in ContentTypes}
    \cup {Responds(st, WithContentType(h, "text/html"), FALSE, FALSE, SamplePage) :
            st \in ClassifiedStatuses, h \in HeaderSets}

Request(method, targetURL) == [method |-> method, url |-> targetURL]

\* The scenarios of one invocation: a request and what the network holds for it.
RequestScenarios ==
    {<<Request(m, u), r>> : m \in Methods, u \in URLInputs, r \in BasicRemotes}

ResponseScenarios == {<<Request("GET", DefaultURL), r>> : r \in ResponseRemotes}

DocumentScenarios ==
    {<<Request("GET", u), Serves(doc)>> : u \in BaseURLs, doc \in ReferenceDocs}
    \cup {<<Request("GET", DefaultURL), Serves(doc)>> :
            doc \in LinkDocs \cup MetaDocs \cup TreeDocs}

\* The scenarios of invocations that run side by side: two pages of different
\* content, a connection that fails, and a request that is rejected.
LinkPage ==
    <<DocumentNode,
      AtDepth(ElementNode("a", <<Attribute("href", "a.html")>>), 1),
      AtDepth(TextNode("A"), 2)>>

TitlePage ==
    <<DocumentNode,
      AtDepth(ElementNode("title", <<>>), 1), AtDepth(TextNode("T"), 2)>>

SharedScenarios ==
    {<<Request("GET", "http://h/p/"), Serves(LinkPage)>>,
     <<Request("GET", "http://h/a/b"), Serves(TitlePage)>>,
     <<Request("GET", "http://h/p/"), NoResponse("error", "dial tcp: connection refused")>>,
     <<Request("GET", "ftp://h/f"), Serves(TitlePage)>>}

NoScenario == <<Request("", ""), NoResponse("none", "")>>

\* Pages written out by hand, each the document node and what follows it:
\* a elements without an href, with an empty one, with and without text.
AnchorPages ==
    {<<DocumentNode, AtDepth(ElementNode("a", attrs), 1), AtDepth(TextNode(t), 2)>> :
        attrs \in {<<Attribute("data-href", "/z")>>, <<Attribute("href", "")>>, <<>>,
                   <<Attribute("href", "/x")>>},
        t \in {"t", "  ", " t "}}

\* <hk>text</hk> for every level, and a tag that is no heading.
HeadingPages ==
    {<<DocumentNode, AtDepth(ElementNode(tag, <<>>), 1), AtDepth(TextNode(t), 2)>> :
        tag \in {"h1", "h2", "h3", "h4", "h5", "h6", "h7"}, t \in {"Hi", " Hi\n", "\t "}}

\* Elements whose attribute list holds a key more than once.
RepeatedAttrPages ==
    {<<DocumentNode, AtDepth(ElementNode("a", <<Attribute("href", f), Attribute("href", l)>>), 1),
       AtDepth(TextNode("t"), 2),
       AtDepth(ElementNode("img", <<Attribute("src", f), Attribute("src", l)>>), 1),
       AtDepth(ElementNode("meta", <<Attribute("name", f), Attribute("name", l),
                                     Attribute("content", f), Attribute("content", l)>>), 1),
       AtDepth(ElementNode("meta", <<Attribute("property", f), Attribute("property", l),
                                     Attribute("content", l), Attribute("content", f)>>), 1)>> :
        f \in {"", "/x", "a.html"}, l \in {"", "/x", "a.html"}}

\* meta elements keyed by property only, by nothing, and by both.
MetaKeyPages ==
    {<<DocumentNode,
       AtDepth(ElementNode("meta", <<Attribute("name", "keywords"),
                                     Attribute("content", "A")>>), 1),
       AtDepth(ElementNode("meta", <<Attribute("property", "keywords"),
                                     Attribute("content", "K")>>), 1),
       AtDepth(ElementNode("meta", <<Attribute("content", "N")>>), 1),
       AtDepth(ElementNode("meta", <<Attribute("property", "description"),
                                     Attribute("name", "author"),
                                     Attribute("content", "B")>>), 1)>>,
     <<DocumentNode,
       AtDepth(ElementNode("meta", <<Attribute("property", "description"),
                                     Attribute("content", "C")>>), 1),
       AtDepth(ElementNode("meta", <<Attribute("property", "keywords"),
                                     Attribute("content", "K")>>), 1),
       AtDepth(ElementNode("meta", <<Attribute("name", ""), Attribute("property", ""),
                                     Attribute("content", "N")>>), 1)>>}

\* Elements inside matched elements, and titles in several places.
NestedPages ==
    {<<DocumentNode,
       AtDepth(ElementNode("h1", <<>>), 1), AtDepth(TextNode("x"), 2),
       AtDepth(ElementNode("img", <<Attribute("src", "i.png")>>), 2),
       AtDepth(ElementNode("a", <<Attribute("href", "/x")>>), 2), AtDepth(TextNode("y"), 3),
       AtDepth(ElementNode("img", <<Attribute("src", "a.html")>>), 3),
       AtDepth(TextNode("z"), 2),
       AtDepth(ElementNode("a", <<Attribute("href", "a.html")>>), 1)>>,
     <<DocumentNode,
       AtDepth(ElementNode("title", <<>>), 1), AtDepth(TextNode(" T "), 2),
       AtDepth(ElementNode("div", <<>>), 1),
       AtDepth(ElementNode("title", <<>>), 2), AtDepth(TextNode("U"), 3),
       AtDepth(ElementNode("h2", <<>>), 3), AtDepth(TextNode(" V"), 4),
       AtDepth(ElementNode("title", <<>>), 1)>>,
     <<DocumentNode,
       AtDepth(ElementNode("title", <<>>), 1), AtDepth(TextNode(" T "), 2),
       AtDepth(ElementNode("a", <<Attribute("href", "/x")>>), 1),
       AtDepth(ElementNode("a", <<Attribute("href", "a.html")>>), 2),
       AtDepth(TextNode("in"), 3), AtDepth(TextNode("out"), 2)>>}

CasePages ==
    AnchorPages \cup HeadingPages \cup RepeatedAttrPages \cup MetaKeyPages \cup NestedPages

CaseScenarios == {<<Request("GET", DefaultURL), Serves(doc)>> : doc \in CasePages}

(***************************************************************************)
(* Init: the flag is set by main (main.go:52); either one request is being *)
(* served, or every invocation serves a request of its own.  The families  *)
(* of generated documents are extracted with the flag off.                 *)
(***************************************************************************)
\* One request is being served, by invocation 1.
ServesOne(sc) ==
    /\ req = [p \in Procs |-> IF p = 1 THEN sc[1] ELSE NoScenario[1]]
    /\ remote = [p \in Procs |-> IF p = 1 THEN sc[2] ELSE NoScenario[2]]
    /\ pc = [p \in Procs |-> IF p = 1 THEN "handler" ELSE "idle"]

\* Every invocation serves a request of its own.
ServesAll(sc) ==
    /\ req = [p \in Procs |-> sc[p][1]]
    /\ remote = [p \in Procs |-> sc[p][2]]
    /\ pc = [p \in Procs |-> "handler"]

Init ==
    /\ \/ debugMode \in BOOLEAN /\ \E sc \in RequestScenarios : ServesOne(sc)
       \/ debugMode \in BOOLEAN /\ \E sc \in ResponseScenarios : ServesOne(sc)
       \/ debugMode = FALSE /\ \E sc \in DocumentScenarios : ServesOne(sc)
       \/ debugMode \in BOOLEAN /\ \E sc \in CaseScenarios : ServesOne(sc)
       \/ debugMode \in BOOLEAN /\ \E sc \in [Procs -> SharedScenarios] : ServesAll(sc)
    /\ attempts = [p \in Procs |-> 0]
    /\ resp = [p \in Procs |-> None]
    /\ classified = [p \in Procs |-> <<>>]
    /\ parsed = [p \in Procs |-> 0]
    /\ data = [p \in Procs |-> None]
    /\ stack = [p \in Procs |-> <<>>]
    /\ visited = [p \in Procs |-> <<>>]
    /\ ret = [p \in Procs |-> None]
    /\ reply = [p \in Procs |-> <<>>]
    /\ logged = [p \in Procs |-> <<>>]

Next ==
    \E p \in Procs :
        \/ HandleRequest(p)
        \/ FetchFails(p)
        \/ DeadlineExceeded(p)
        \/ ReceiveResponse(p)
        \/ ReadFails(p)
        \/ ParseFails(p)
        \/ BeginExtract(p)
        \/ Visit(p)
        \/ ReturnData(p)

Spec == Init /\ [][Next]_vars

(***************************************************************************)
(* Every invocation runs in a goroutine of its own (net/http serves each   *)
(* request in one), which the scheduler keeps running, and the timer of    *)
(* the deadline (main.go:120, 138) fires: a step an invocation can take is *)
(* taken in the end.                                                       *)
(***************************************************************************)
Ready(p) ==
    \/ pc[p] = "handler"
    \/ pc[p] = "fetching" /\ remote[p].kind = "response"
    \/ pc[p] = "extracting" /\ stack[p] # <<>>

Step(p) == HandleRequest(p) \/ ReceiveResponse(p) \/ Visit(p)

\* Weak fairness of every step of invocation p.  For the three steps of
\* Step(p), which are enabled exactly where Ready(p) holds, the condition
\* is written out: WF_vars(A) is []<>~ENABLED <<A>>_vars \/ []<><<A>>_vars.
Fairness(p) ==
    /\ []<>(~Ready(p)) \/ []<><<Step(p)>>_vars
    /\ WF_vars(FetchFails(p))
    /\ WF_vars(DeadlineExceeded(p))
    /\ WF_vars(ReadFails(p))
    /\ WF_vars(ParseFails(p))
    /\ WF_vars(BeginExtract(p))
    /\ WF_vars(ReturnData(p))

\* The requests whose progress is followed to the end: every kind of
\* rejection and every outcome of the fetch, alone and side by side.
LiveScenarios ==
    {<<Request(m, u), r>> :
        m \in {"GET", "POST"}, u \in {"", DefaultURL, "ftp://h/f", "http:"},
        r \in BasicRemotes}

LiveInit ==
    /\ debugMode \in BOOLEAN
    /\ \/ \E sc \in LiveScenarios : ServesOne(sc)
       \/ \E sc \in [Procs -> SharedScenarios] : ServesAll(sc)
    /\ attempts = [p \in Procs |-> 0]
    /\ resp = [p \in Procs |-> None]
    /\ classified = [p \in Procs |-> <<>>]
    /\ parsed = [p \in Procs |-> 0]
    /\ data = [p \in Procs |-> None]
    /\ stack = [p \in Procs |-> <<>>]
    /\ visited = [p \in Procs |-> <<>>]
    /\ ret = [p \in Procs |-> None]
    /\ reply = [p \in Procs |-> <<>>]
    /\ logged = [p \in Procs |-> <<>>]

LiveSpec == LiveInit /\ [][Next]_vars /\ \A p \in Procs : Fairness(p)

(***************************************************************************)
(* The properties.                                                         *)
(***************************************************************************)
\* scrapeHandler has answered or has called scrapeWebPage.
Handled(p) == pc[p] \notin {"idle", "handler"}

\* The one reply of a finished invocation has this status and category.
Answered(p, statusCode, errorType) ==
    /\ Len(reply[p]) = 1
    /\ reply[p][1].Status = statusCode
    /\ reply[p][1].Error = errorType

\* The url parses and its scheme, as the parser normalises it, is http or https.
ParsesAsWeb(parsedURL) == ~parsedURL.err /\ parsedURL.url.Scheme \in {"http", "https"}

\* The url parameters of the requests, and those of them that parse with an
\* http or https scheme.
RequestURLs ==
    {sc[1].url : sc \in RequestScenarios \cup ResponseScenarios \cup DocumentScenarios
                        \cup SharedScenarios \cup {NoScenario}}

WebURLs == {u \in RequestURLs : ParsesAsWeb(urlParse(u))}

\* C1: a non-empty url parameter of a GET request is accepted (scrapeWebPage
\* is called with it and the fetch is attempted) if and only if it parses as
\* a URL whose normalised scheme is exactly http or https; every other
\* string is answered with invalid_url.
C1_ValidationAcceptsWebURLs ==
    \A p \in Procs :
        (Handled(p) /\ req[p].method = "GET" /\ req[p].url # "") =>
            /\ req[p].url \in RequestURLs
            /\ Answered(p, StatusBadRequest, "invalid_url") <=> req[p].url \notin WebURLs
            /\ attempts[p] > 0 <=> req[p].url \in WebURLs

\* One url is refused for its scheme while another is accepted.
C1_Witness ==
    \E p \in Procs, q \in Procs :
        /\ Answered(p, StatusBadRequest, "invalid_url")
        /\ req[p].url = "ftp://h/f"
        /\ req[q].url = "http://h/p/"
        /\ attempts[q] = 1

\* C2: every url for which a fetch is attempted has a non-empty host; a url
\* with an http or https scheme and no authority never reaches client.Do.
C2_FetchedURLHasHost ==
    \A p \in Procs : attempts[p] > 0 => urlParse(req[p].url).url.Host # ""

\* C3: client.Do is never called for a request that ends in
\* method_not_allowed, missing_url or invalid_url, it is called exactly once
\* for every other request, and no failure leads to a second call.
C3_OneAttempt ==
    \A p \in Procs :
        /\ attempts[p] <= 1
        /\ pc[p] = "done" =>
                /\ Len(reply[p]) = 1
                /\ attempts[p] =
                        IF reply[p][1].Error \in
                                {"method_not_allowed", "missing_url", "invalid_url"}
                        THEN 0 ELSE 1

\* A connection failure has ended a request after its one attempt.
C3_Witness ==
    \E p \in Procs :
        /\ pc[p] = "done"
        /\ remote[p].kind = "error"
        /\ Answered(p, StatusInternalServerError, "scrape_failed")
        /\ attempts[p] = 1

\* The status and the category the precedence gives a finished request.
Precedence(p) ==
    IF req[p].method # "GET" THEN <<StatusMethodNotAllowed, "method_not_allowed">>
    ELSE IF req[p].url = "" THEN <<StatusBadRequest, "missing_url">>
    ELSE IF req[p].url \notin WebURLs THEN <<StatusBadRequest, "invalid_url">>
    ELSE IF ret[p] # None /\ ret[p][1].err # None
    THEN <<StatusInternalServerError, "scrape_failed">>
    ELSE <<StatusOK, "">>

\* C4: a finished request has exactly one reply, whose category follows the
\* precedence method_not_allowed (405), missing_url (400), invalid_url (400),
\* scrape_failed (500); no other category is emitted, and the reply is 200,
\* carrying the data, only when scrapeWebPage returned a result.
C4_ErrorPrecedence ==
    \A p \in Procs :
        IF pc[p] = "done"
        THEN /\ Answered(p, Precedence(p)[1], Precedence(p)[2])
             /\ reply[p][1].Status = StatusOK <=>
                    (ret[p] # None /\ ret[p][1].data # None /\ ret[p][1].err = None)
             /\ reply[p][1].Status = StatusOK =>
                    reply[p][1].Data = ret[p][1].data
             /\ reply[p][1].Status # StatusOK => reply[p][1].Data = None
        ELSE reply[p] = <<>>

\* A POST request without a url parameter has been answered 405.
C4_Witness ==
    \E p \in Procs :
        /\ req[p].method = "POST"
        /\ req[p].url = ""
        /\ Answered(p, StatusMethodNotAllowed, "method_not_allowed")

\* The invocation has a response and these are its status, its headers, its
\* content type, and the message of its reply.
StatusOf(p) == resp[p][1].StatusCode
HeaderOf(p) == resp[p][1].Header
ContentTypeOf(p) == HeaderGet(resp[p][1].Header, "Content-Type")
MessageOf(p) == reply[p][1].Message

Is2xx(statusCode) == statusCode \in 200..299

\* scrapeWebPage has failed and the request was answered scrape_failed.
ScrapeFailed(p) ==
    /\ pc[p] = "done"
    /\ ret[p] # None /\ ret[p][1].data = None /\ ret[p][1].err # None
    /\ Answered(p, StatusInternalServerError, "scrape_failed")

Labels ==
    <<"Cloudflare", "Akamai", "AWS WAF", "Imperva/Incapsula", "DataDome", "Sucuri",
      "PerimeterX">>

\* C5: a response whose status is not 2xx, whatever its content type, fails
\* with scrape_failed; the message carries the status code in decimal, and it
\* carries a protection-service label if and only if the classifier matched
\* the headers, the label being the one the classifier returned (503 with a
\* CF-Ray header gives a message containing Cloudflare).
C5_StatusFailureMessage ==
    \A p \in Procs :
        (resp[p] # None /\ ~Is2xx(StatusOf(p))) =>
            /\ ScrapeFailed(p)
            /\ Contains(MessageOf(p), "status code: " \o Itoa(StatusOf(p)))
            /\ (\E i \in 1..Len(Labels) : Contains(MessageOf(p), Labels[i]))
                    <=> detectAntiBotService(HeaderOf(p)) # ""
            /\ detectAntiBotService(HeaderOf(p)) # "" =>
                    HasSuffix(MessageOf(p),
                              " (detected: " \o detectAntiBotService(HeaderOf(p)) \o ")")
            /\ (StatusOf(p) = 503 /\ HeaderGet(HeaderOf(p), "CF-Ray") # "") =>
                    Contains(MessageOf(p), "Cloudflare")

\* A 503 with a CF-Ray header was answered with the Cloudflare label, and
\* another refused status with no label at all.
C5_Witness ==
    \E p \in Procs :
        /\ resp[p] # None
        /\ StatusOf(p) = 503
        /\ HeaderGet(HeaderOf(p), "CF-Ray") = "abc"
        /\ ContentTypeOf(p) = "text/html"
        /\ ScrapeFailed(p)
        /\ MessageOf(p) =
                "Failed to scrape URL: unexpected status code: 503 (detected: Cloudflare)"

\* C6: a response with a status from 200 to 299 and a Content-Type containing
\* text/html does not fail on its status or its content type, its body is
\* read, and the classifier is not consulted for it.
C6_Any2xxIsFetched ==
    \A p \in Procs :
        (resp[p] # None /\ Is2xx(StatusOf(p)) /\ Contains(ContentTypeOf(p), "text/html")) =>
            /\ classified[p] = <<>>
            /\ pc[p] = "done" =>
                    /\ ~Contains(MessageOf(p), "unexpected status code")
                    /\ ~Contains(MessageOf(p), "content type is not HTML")

\* C7: a response with a successful (2xx) status and a Content-Type that does
\* not contain text/html, or none, fails with scrape_failed, the message
\* cites the content type as received, and nothing is parsed or traversed.
C7_NonHTMLIsRefused ==
    \A p \in Procs :
        (resp[p] # None /\ Is2xx(StatusOf(p)) /\ ~Contains(ContentTypeOf(p), "text/html")) =>
            /\ ScrapeFailed(p)
            /\ MessageOf(p) =
                    "Failed to scrape URL: content type is not HTML: " \o ContentTypeOf(p)
            /\ parsed[p] = 0
            /\ data[p] = None
            /\ visited[p] = <<>>

\* Whether rule i of the classifier holds of the headers.
RuleHolds(i, header) ==
    CASE i = 1 -> HeaderGet(header, "Server") = "cloudflare" \/ HeaderGet(header, "Cf-Ray") # ""
      [] i = 2 -> \/ HeaderGet(header, "X-Akamai-Transformed") # ""
                  \/ HeaderGet(header, "X-Akamai-Session-Info") # ""
      [] i = 3 -> \/ HeaderGet(header, "X-Amzn-Requestid") # ""
                  \/ HeaderGet(header, "X-Amzn-Trace-Id") # ""
      [] i = 4 -> HeaderGet(header, "X-Iinfo") # "" \/ HeaderGet(header, "X-Cdn") = "Incapsula"
      [] i = 5 -> HeaderGet(header, "X-Datadome") # ""
      [] i = 6 -> \/ HeaderGet(header, "X-Sucuri-Id") # ""
                  \/ HeaderGet(header, "X-Sucuri-Cache") # ""
      [] i = 7 -> Contains(HeaderGet(header, "Server"), "PerimeterX")

\* The label of the lowest-numbered rule that holds, or none.
FirstLabel(header) ==
    LET hits == {i \in 1..Len(Labels) : RuleHolds(i, header)}
    IN  IF hits = {} THEN ""
        ELSE Labels[CHOOSE i \in hits : \A j \in hits : i <= j]

\* C8: every call of detectAntiBotService returns the label of the first of
\* the seven rules, in the order Cloudflare, Akamai, AWS WAF,
\* Imperva/Incapsula, DataDome, Sucuri, PerimeterX, that the response headers
\* satisfy, and the empty label when they satisfy none; it depends on the
\* headers only.
C8_FirstMatchingRule ==
    \A p \in Procs :
        \A i \in 1..Len(classified[p]) :
            /\ resp[p] # None
            /\ classified[p][i] = FirstLabel(HeaderOf(p))
            /\ \A q \in Procs :
                    (resp[q] # None /\ HeaderOf(q) = HeaderOf(p)) =>
                        \A j \in 1..Len(classified[q]) : classified[q][j] = classified[p][i]

\* Headers that satisfy the Akamai rule and the Cloudflare rule were
\* classified as Cloudflare.
C8_Witness ==
    \E p \in Procs :
        /\ resp[p] # None
        /\ RuleHolds(1, HeaderOf(p))
        /\ RuleHolds(2, HeaderOf(p))
        /\ classified[p] = <<"Cloudflare">>

\* The nodes visited so far that are elements of this tag with a non-empty
\* value of this attribute, in the order visited.
Referring(p, tag, key) ==
    LET refers(n) ==
            /\ remote[p].doc[n].Type = "element"
            /\ remote[p].doc[n].Data = tag
            /\ FirstAttr(remote[p].doc[n].Attr, key) # ""
    IN  SelectSeq(visited[p], refers)

\* What resolveURL is to give for an attribute as written on a page: the
\* attribute itself if the base or the reference does not parse; else the
\* reference resolved against the base, which is then to be absolute (it
\* parses, with a scheme).
Resolution(base, ref, written) ==
    IF base.err \/ ref.err
    THEN [value |-> written, verbatim |-> TRUE, absolute |-> FALSE]
    ELSE [value |-> URLString(ResolveReference(base.url, ref.url)),
          verbatim |-> FALSE,
          absolute |->
            /\ ~urlParse(URLString(ResolveReference(base.url, ref.url))).err
            /\ urlParse(URLString(ResolveReference(base.url, ref.url))).url.Scheme # ""]

\* The href and src values written on the pages.
WrittenValues == References \cup {"i.png"}

\* The resolutions of the written values against the urls of the pages.
Resolutions ==
    [b \in WebURLs, w \in WrittenValues |-> Resolution(urlParse(b), urlParse(w), w)]

ResolvedAgainstPage(p, value, written) ==
    /\ req[p].url \in WebURLs
    /\ written \in WrittenValues
    /\ value = Resolutions[req[p].url, written].value
    /\ Resolutions[req[p].url, written].verbatim \/ Resolutions[req[p].url, written].absolute
    /\ (req[p].url = "http://h/p/" /\ written = "/x") => value = "http://h/x"
    /\ written = "%zz" => value = "%zz"

\* C9: during and after extraction, links holds one entry for every a
\* element with an href visited so far, images one for every img element
\* with a src, in document order; each stored value is the attribute
\* resolved against the url of the page, an absolute url ("/x" against
\* http://h/p/ gives http://h/x), or the attribute as written when the base
\* or the reference does not parse, and the elements after such a reference
\* are stored all the same.
C9_ResolvedOrVerbatim ==
    \A p \in Procs :
        data[p] # None =>
            /\ Len(data[p][1].Links) = Len(Referring(p, "a", "href"))
            /\ Len(data[p][1].Images) = Len(Referring(p, "img", "src"))
            /\ \A i \in 1..Len(data[p][1].Links) :
                    ResolvedAgainstPage(p, data[p][1].Links[i].Href,
                        FirstAttr(remote[p].doc[Referring(p, "a", "href")[i]].Attr, "href"))
            /\ \A i \in 1..Len(data[p][1].Images) :
                    ResolvedAgainstPage(p, data[p][1].Images[i],
                        FirstAttr(remote[p].doc[Referring(p, "img", "src")[i]].Attr, "src"))
            /\ pc[p] = "done" =>
                    /\ reply[p][1].Status = StatusOK
                    /\ Len(visited[p]) = Len(remote[p].doc)

\* A page whose first link does not parse and whose second is /x was
\* extracted to the end: the first is stored as written, the second resolved.
C9_Witness ==
    \E p \in Procs :
        /\ pc[p] = "done"
        /\ data[p] # None
        /\ req[p].url = "http://h/p/"
        /\ Len(data[p][1].Links) = 2
        /\ data[p][1].Links[1].Href = "%zz"
        /\ data[p][1].Links[2].Href = "http://h/x"

\* The meta elements of the page, and what each carries.
MetaNodes(p) ==
    {n \in 1..Len(remote[p].doc) :
        remote[p].doc[n].Type = "element" /\ remote[p].doc[n].Data = "meta"}

NameOf(p, n) == LastAttr(remote[p].doc[n].Attr, "name")
PropertyOf(p, n) == LastAttr(remote[p].doc[n].Attr, "property")
ContentOf(p, n) == LastAttr(remote[p].doc[n].Attr, "content")

\* The key a meta element is stored under: its name, else its property.
KeyOf(p, n) == IF NameOf(p, n) # "" THEN NameOf(p, n) ELSE PropertyOf(p, n)

\* The last of a non-empty set of nodes in document order.
LastOf(nodes) == CHOOSE n \in nodes : \A m \in nodes : m <= n

Named(p, name) == {n \in MetaNodes(p) : NameOf(p, n) = name}
Keyed(p, key) == {n \in MetaNodes(p) : KeyOf(p, n) = key}

\* The content of the last meta element of this name, or nothing.
LastNamed(p, name) ==
    IF Named(p, name) = {} THEN "" ELSE ContentOf(p, LastOf(Named(p, name)))

\* C10 as stated: when several meta elements carry one non-empty name,
\* metaTags[name] is the content of the last of them, and for description
\* and keywords the field of that name equals the same content.
C10_LastNameWins ==
    \A p \in Procs :
        (pc[p] = "done" /\ data[p] # None) =>
            \A n \in MetaNodes(p) :
                (NameOf(p, n) # "" /\ Cardinality(Named(p, NameOf(p, n))) >= 2) =>
                    /\ NameOf(p, n) \in DOMAIN data[p][1].MetaTags
                    /\ data[p][1].MetaTags[NameOf(p, n)] = LastNamed(p, NameOf(p, n))
                    /\ NameOf(p, n) = "description" =>
                            data[p][1].Description = data[p][1].MetaTags["description"]
                    /\ NameOf(p, n) = "keywords" =>
                            data[p][1].Keywords = data[p][1].MetaTags["keywords"]

\* C10, amended: after extraction metaTags has one entry for every key (the
\* name of a meta element, or its property when it has no name), holding the
\* content of the last element stored under that key; so metaTags[name] is
\* the content of the last element of that name unless a later element
\* without a name has it as its property.  The fields description and
\* keywords hold the content of the last element of that name.
C10_LastKeyWins ==
    \A p \in Procs :
        (pc[p] = "done" /\ data[p] # None) =>
            /\ DOMAIN data[p][1].MetaTags = {KeyOf(p, n) : n \in MetaNodes(p)} \ {""}
            /\ \A k \in DOMAIN data[p][1].MetaTags :
                    data[p][1].MetaTags[k] = ContentOf(p, LastOf(Keyed(p, k)))
            /\ data[p][1].Description = LastNamed(p, "description")
            /\ data[p][1].Keywords = LastNamed(p, "keywords")
            /\ \A n \in MetaNodes(p) :
                    (NameOf(p, n) # "" /\ \A m \in Keyed(p, NameOf(p, n)) :
                                            m > n => NameOf(p, m) # "") =>
                        data[p][1].MetaTags[NameOf(p, n)] = LastNamed(p, NameOf(p, n))

\* Two meta elements named description, with contents A then B, were
\* extracted.
C10_Witness ==
    \E p \in Procs :
        /\ pc[p] = "done"
        /\ data[p] # None
        /\ Cardinality(Named(p, "description")) = 2
        /\ ContentOf(p, 2) = "A"
        /\ ContentOf(p, LastOf(Named(p, "description"))) = "B"
        /\ data[p][1].MetaTags["description"] = "B"
        /\ data[p][1].Description = "B"

\* The value of the first attribute of this key, or nothing.
RECURSIVE FirstValue(_, _)
FirstValue(attrs, key) ==
    IF attrs = <<>> THEN ""
    ELSE IF Head(attrs).Key = key THEN Head(attrs).Val
    ELSE FirstValue(Tail(attrs), key)

\* The last node of the subtree of node n, and the text of the text nodes of
\* the subtree, in document order.
SubtreeEnd(doc, n) ==
    LET later == {m \in (n + 1)..Len(doc) : doc[m].Depth <= doc[n].Depth}
    IN  IF later = {} THEN Len(doc)
        ELSE (CHOOSE m \in later : \A k \in later : m <= k) - 1

FlatText(doc, n) ==
    LET text[m \in n..SubtreeEnd(doc, n)] ==
            (IF m = n THEN "" ELSE text[m - 1])
            \o (IF doc[m].Type = "text" THEN doc[m].Data ELSE "")
    IN  text[SubtreeEnd(doc, n)]

\* The page of an invocation, and whether its node n is an element of a tag.
PageOf(p) == remote[p].doc
IsTag(p, n, tag) == PageOf(p)[n].Type = "element" /\ PageOf(p)[n].Data = tag

\* The a elements visited so far whose first href is not empty.
LinkedSoFar(p) ==
    LET linked(n) == IsTag(p, n, "a") /\ FirstValue(PageOf(p)[n].Attr, "href") # ""
    IN  SelectSeq(visited[p], linked)

\* C11: links holds one Link for every a element visited so far whose
\* selected (first) href is not empty and none for any other a element,
\* whatever its text; every Link has a non-empty href, and its text is the
\* trimmed text of the element's subtree, which may be empty.
C11_LinkNeedsHref ==
    \A p \in Procs :
        data[p] # None =>
            /\ Len(data[p][1].Links) = Len(LinkedSoFar(p))
            /\ \A i \in 1..Len(data[p][1].Links) :
                    /\ data[p][1].Links[i].Href # ""
                    /\ data[p][1].Links[i].Text =
                            TrimSpace(FlatText(PageOf(p), LinkedSoFar(p)[i]))

\* <a data-href="/z">t</a> was extracted and no link was recorded.
C11_Witness ==
    \E p \in Procs :
        /\ pc[p] = "done"
        /\ data[p] # None
        /\ Len(PageOf(p)) = 3
        /\ IsTag(p, 2, "a")
        /\ PageOf(p)[2].Attr = <<Attribute("data-href", "/z")>>
        /\ PageOf(p)[3].Data = "t"
        /\ data[p][1].Links = <<>>

HeadingTags == {"h1", "h2", "h3", "h4", "h5", "h6"}

\* The string holds white space only.
Blank(s) == \A i \in 1..Len(s) : IsSpace(At(s, i))

\* t is s without the white space at its two ends.
IsTrimOf(t, s) ==
    /\ t # ""
    /\ ~IsSpace(At(t, 1))
    /\ ~IsSpace(At(t, Len(t)))
    /\ \E i \in 1..Len(s) :
            /\ i + Len(t) - 1 <= Len(s)
            /\ SubSeq(s, i, i + Len(t) - 1) = t
            /\ Blank(SubSeq(s, 1, i - 1))
            /\ Blank(SubSeq(s, i + Len(t), Len(s)))

\* The h1..h6 elements visited so far whose text is not all white space.
HeadedSoFar(p) ==
    LET headed(n) ==
            /\ PageOf(p)[n].Type = "element"
            /\ PageOf(p)[n].Data \in HeadingTags
            /\ ~Blank(FlatText(PageOf(p), n))
    IN  SelectSeq(visited[p], headed)

\* C12: headings holds one Heading for every h1..h6 element visited so far
\* whose flattened text is not empty or all white space, and none for any
\* other element; its level is in 1..6 and is the digit of the tag, and its
\* text is that flattened text less the white space at its ends, so it is
\* neither empty nor begins or ends with white space.
C12_HeadingLevelAndText ==
    \A p \in Procs :
        data[p] # None =>
            /\ Len(data[p][1].Headings) = Len(HeadedSoFar(p))
            /\ \A i \in 1..Len(data[p][1].Headings) :
                    /\ data[p][1].Headings[i].Level \in 1..6
                    /\ PageOf(p)[HeadedSoFar(p)[i]].Data =
                            "h" \o Itoa(data[p][1].Headings[i].Level)
                    /\ IsTrimOf(data[p][1].Headings[i].Text,
                                FlatText(PageOf(p), HeadedSoFar(p)[i]))

\* An h3 element with the text Hi between white space gave the heading
\* {3, Hi}.
C12_Witness ==
    \E p \in Procs :
        /\ pc[p] = "done"
        /\ data[p] # None
        /\ Len(PageOf(p)) = 3
        /\ IsTag(p, 2, "h3")
        /\ FlatText(PageOf(p), 2) = " Hi\n"
        /\ data[p][1].Headings = <<[Level |-> 3, Text |-> "Hi"]>>

\* The response is one scrapeWebPage goes on to parse.
Parsable(p) ==
    /\ remote[p].kind = "response"
    /\ remote[p].status = StatusOK
    /\ Contains(HeaderGet(remote[p].header, "Content-Type"), "text/html")
    /\ ~remote[p].readErr
    /\ ~remote[p].parseErr

\* C13: what scrapeWebPage returns is either a result or a failure, never
\* both and never neither; every failure (network error, deadline, refused
\* status, content type, read error, parse error) comes without a result;
\* a result is returned only when every node of the tree has been visited
\* and nothing is left to visit, and it is not changed afterwards.
C13_ResultOrFailure ==
    \A p \in Procs :
        /\ ret[p] # None =>
                /\ pc[p] = "done"
                /\ (ret[p][1].data = None) # (ret[p][1].err = None)
                /\ ret[p][1].data # None <=> (resp[p] # None /\ Parsable(p))
                /\ ret[p][1].data # None =>
                        /\ stack[p] = <<>>
                        /\ Len(visited[p]) = Len(PageOf(p))
                        /\ {visited[p][i] : i \in 1..Len(visited[p])} = 1..Len(PageOf(p))
                        /\ ret[p][1].data = data[p]
        /\ (pc[p] = "done" /\ attempts[p] > 0) => ret[p] # None

\* A page of nine nodes was traversed to the end and returned.
C13_Witness ==
    \E p \in Procs :
        /\ ret[p] # None
        /\ ret[p][1].data # None
        /\ Len(PageOf(p)) = 9
        /\ Len(visited[p]) = 9

\* C14: every request that is being handled is answered in the end, with
\* exactly one reply; a fetch that nothing answers is given up when the
\* deadline fires, and the request ends as scrape_failed with the deadline
\* named in its message.
C14_EventuallyAnswered ==
    \A p \in Procs :
        /\ (pc[p] = "handler") ~> (pc[p] = "done" /\ Len(reply[p]) = 1)
        /\ (pc[p] = "fetching" /\ remote[p].kind = "hang")
                ~> (/\ ScrapeFailed(p)
                    /\ Contains(MessageOf(p), "context deadline exceeded"))

\* A fetch that nothing answered has ended as scrape_failed after its one
\* attempt.
C14_Witness ==
    \E p \in Procs :
        /\ remote[p].kind = "hang"
        /\ attempts[p] = 1
        /\ ScrapeFailed(p)
        /\ HasSuffix(MessageOf(p), "context deadline exceeded")

(***************************************************************************)
(* What a request comes to, told from the request and from what the        *)
(* network holds for it alone: none of the definitions below reads a       *)
(* variable.                                                               *)
(***************************************************************************)
RECURSIVE ExtractFrom(_, _, _, _)
ExtractFrom(doc, n, d, baseURL) ==
    IF n > Len(doc) THEN d
    ELSE ExtractFrom(doc, n + 1, extractNode(doc, n, d, baseURL), baseURL)

ResponseFailure(rem) ==
    IF rem.status # 200
    THEN Some(StatusErrorMsg(rem.status, detectAntiBotService(rem.header)))
    ELSE IF ~Contains(HeaderGet(rem.header, "Content-Type"), "text/html")
    THEN Some("content type is not HTML: " \o HeaderGet(rem.header, "Content-Type"))
    ELSE IF rem.readErr THEN Some("failed to read response body: " \o rem.cause)
    ELSE IF rem.parseErr THEN Some("failed to parse HTML: " \o rem.cause)
    ELSE None

FetchFailure(targetURL, host, rem) ==
    IF host = ""
    THEN Some("failed to fetch URL: " \o DoError(targetURL, "http: no Host in request URL"))
    ELSE IF rem.kind = "error"
    THEN Some("failed to fetch URL: " \o DoError(targetURL, rem.cause))
    ELSE IF rem.kind = "hang"
    THEN Some("failed to fetch URL: " \o DoError(targetURL, "context deadline exceeded"))
    ELSE ResponseFailure(rem)

ScrapeOutcome(targetURL, rem, failure) ==
    IF failure # None
    THEN sendError(500, "scrape_failed", "Failed to scrape URL: " \o failure[1])
    ELSE sendData(ExtractFrom(rem.doc, 1, NewScrapedData(targetURL), targetURL))

RequestOutcome(request, rem, parsedURL) ==
    IF request.method # "GET"
    THEN sendError(405, "method_not_allowed", "Only GET method is allowed")
    ELSE IF request.url = ""
    THEN sendError(400, "missing_url", "URL parameter is required")
    ELSE IF ~ParsesAsWeb(parsedURL)
    THEN sendError(400, "invalid_url", "URL must be a valid http or https URL")
    ELSE ScrapeOutcome(request.url, rem, FetchFailure(request.url, parsedURL.url.Host, rem))

Outcome(request, rem) == RequestOutcome(request, rem, urlParse(request.url))

\* C15: the -debug flag is never written by a step, and whatever its value
\* the reply of a finished request, and with it the result or the failure
\* scrapeWebPage returned, is the one the request and the answer of the
\* network determine.
C15_FlagHasNoInfluence ==
    [][/\ debugMode' = debugMode
       /\ \A p \in Procs :
            (pc[p] # "done" /\ pc'[p] = "done") =>
                /\ reply'[p] = <<Outcome(req[p], remote[p])>>
                /\ ret'[p] # None => 
                        /\ ret'[p][1].data # None => reply'[p][1].Data = ret'[p][1].data
                        /\ ret'[p][1].err # None =>
                                reply'[p][1].Message
                                    = "Failed to scrape URL: " \o ret'[p][1].err[1]]_vars

\* With the flag set, a page has been scraped and a refused status has been
\* reported, each with its debug lines logged.
C15_Witness ==
    /\ debugMode
    /\ \E p \in Procs :
        /\ pc[p] = "done"
        /\ \/ /\ ret[p] # None /\ ret[p][1].data # None
              /\ ret[p][1].data[1].Links # <<>>
              /\ \E i \in 1..Len(logged[p]) : logged[p][i] = "HTML Preview"
           \/ /\ ScrapeFailed(p)
              /\ \E i \in 1..Len(logged[p]) : logged[p][i] = "Response Headers"

\* Everything invocation q holds.
Own(q) ==
    <<pc[q], req[q], remote[q], attempts[q], resp[q], classified[q], parsed[q],
      data[q], stack[q], visited[q], ret[q], reply[q], logged[q]>>

\* C16: whatever the interleaving, a step is the step of one invocation and
\* leaves everything the other invocations hold as it was, the flag is not
\* written, and what an invocation returns and replies in the end is what
\* its request and the answer of the network come to on their own.
C16_InvocationsIsolated ==
    [][\E p \in Procs :
        /\ \A q \in Procs \ {p} : Own(q)' = Own(q)
        /\ debugMode' = debugMode
        /\ pc'[p] = "done" =>
                /\ reply'[p][1] = Outcome(req[p], remote[p])
                /\ ret'[p] # None =>
                        ret'[p][1].data = Outcome(req[p], remote[p]).Data]_vars

\* Two invocations are in the middle of their extraction at the same time,
\* each with nodes visited and nodes pending.
C16_Witness ==
    \E p, q \in Procs :
        /\ p # q
        /\ pc[p] = "extracting" /\ pc[q] = "extracting"
        /\ visited[p] # <<>> /\ visited[q] # <<>>
        /\ stack[p] # <<>> /\ stack[q] # <<>>
        /\ data[p] # data[q]

\* Map after is map before with val written under key: nothing else differs.
WrittenUnder(before, after, key, val) ==
    /\ DOMAIN after = DOMAIN before \cup {key}
    /\ after[key] = val
    /\ \A k \in DOMAIN before \ {key} : after[k] = before[k]

\* What the visit of a meta element with this name, property and content
\* makes of the data.
MetaStored(name, property, content, before, after) ==
    /\ name # "" => WrittenUnder(before.MetaTags, after.MetaTags, name, content)
    /\ (name = "" /\ property # "") =>
            WrittenUnder(before.MetaTags, after.MetaTags, property, content)
    /\ (name = "" /\ property = "") => after.MetaTags = before.MetaTags
    /\ after.Description = IF name = "description" THEN content ELSE before.Description
    /\ after.Keywords = IF name = "keywords" THEN content ELSE before.Keywords

\* The node a visiting step of p handles, if the step is one.
Visiting(p) == IF pc[p] = "extracting" /\ stack[p] # <<>> THEN {Head(stack[p])} ELSE {}

\* C17: the visit of a meta element writes its content into metaTags under
\* its name if that is not empty, else under its property if that is not
\* empty, else nowhere; an element with both writes under its name only;
\* description and keywords change only when the name is description or
\* keywords, whatever the property.
C17_MetaKeySelection ==
    [][\A p \in Procs : \A n \in Visiting(p) :
            (visited'[p] # visited[p] /\ IsTag(p, n, "meta")) =>
                MetaStored(NameOf(p, n), PropertyOf(p, n), ContentOf(p, n),
                           data[p][1], data'[p][1])]_vars

\* A page whose meta elements are identified by property=description and
\* property=keywords only was extracted: metaTags has both entries, the two
\* fields are empty.
C17_Witness ==
    \E p \in Procs :
        /\ pc[p] = "done" /\ data[p] # None
        /\ DOMAIN data[p][1].MetaTags = {"description", "keywords"}
        /\ data[p][1].MetaTags["description"] = "C"
        /\ data[p][1].Description = "" /\ data[p][1].Keywords = ""
        /\ \A n \in MetaNodes(p) : NameOf(p, n) = ""

\* The value of the last attribute of this key in the list, "" without one.
RECURSIVE LastValue(_, _)
LastValue(attrs, key) ==
    IF attrs = <<>> THEN ""
    ELSE IF attrs[Len(attrs)].Key = key THEN attrs[Len(attrs)].Val
    ELSE LastValue(SubSeq(attrs, 1, Len(attrs) - 1), key)

\* List after is list before when the selected value is empty, and else
\* list before with one entry more.
SkippedOrAppended(selected, before, after) ==
    IF selected = "" THEN after = before
    ELSE Len(after) = Len(before) + 1 /\ SubSeq(after, 1, Len(before)) = before

\* C18: with a key that may occur more than once in the attribute list, the
\* visit of a meta element uses the last name, the last property and the
\* last content; the visit of an a element uses the first href and that of
\* an img element the first src, so that the element is skipped when the
\* first is empty, whatever comes later, and is else stored with the first
\* value resolved.
C18_LastForMetaFirstForLinks ==
    [][\A p \in Procs : \A n \in Visiting(p) :
            visited'[p] # visited[p] =>
                /\ IsTag(p, n, "meta") =>
                        MetaStored(LastValue(PageOf(p)[n].Attr, "name"),
                                   LastValue(PageOf(p)[n].Attr, "property"),
                                   LastValue(PageOf(p)[n].Attr, "content"),
                                   data[p][1], data'[p][1])
                /\ IsTag(p, n, "a") =>
                        /\ SkippedOrAppended(FirstValue(PageOf(p)[n].Attr, "href"),
                                             data[p][1].Links, data'[p][1].Links)
                        /\ data'[p][1].Links # data[p][1].Links =>
                                data'[p][1].Links[Len(data'[p][1].Links)].Href
                                    = resolveURL(req[p].url,
                                                 FirstValue(PageOf(p)[n].Attr, "href"))
                /\ IsTag(p, n, "img") =>
                        /\ SkippedOrAppended(FirstValue(PageOf(p)[n].Attr, "src"),
                                             data[p][1].Images, data'[p][1].Images)
                        /\ data'[p][1].Images # data[p][1].Images =>
                                data'[p][1].Images[Len(data'[p][1].Images)]
                                    = resolveURL(req[p].url,
                                                 FirstValue(PageOf(p)[n].Attr, "src"))]_vars

\* A page was extracted whose a element has an empty first href and a
\* non-empty second one and whose meta element has an empty first name and
\* a non-empty second one: no link is stored, the second name is a key.
C18_Witness ==
    \E p \in Procs :
        /\ pc[p] = "done" /\ data[p] # None
        /\ data[p][1].Links = <<>>
        /\ \E n \in 1..Len(PageOf(p)) :
                /\ IsTag(p, n, "a")
                /\ FirstValue(PageOf(p)[n].Attr, "href") = ""
                /\ LastValue(PageOf(p)[n].Attr, "href") # ""
        /\ \E n \in 1..Len(PageOf(p)) :
                /\ IsTag(p, n, "meta")
                /\ FirstValue(PageOf(p)[n].Attr, "name") = ""
                /\ LastValue(PageOf(p)[n].Attr, "name") \in DOMAIN data[p][1].MetaTags

\* The title elements of the page of p, and those visited so far.
TitleNodes(p) == {n \in 1..Len(PageOf(p)) : IsTag(p, n, "title")}
TitlesSoFar(p) == {n \in TitleNodes(p) : \E i \in 1..Len(visited[p]) : visited[p][i] = n}

\* C19: during extraction the title is the text of the subtree of the last
\* title element visited, every character of it, and "" before the first;
\* after extraction it is that of the last title element of the page in
\* document order, wherever it stands and even if its text is empty, and ""
\* on a page without a title element.
C19_LastTitleUntrimmed ==
    \A p \in Procs :
        data[p] # None =>
            /\ data[p][1].Title =
                    IF TitlesSoFar(p) = {} THEN ""
                    ELSE FlatText(PageOf(p), LastOf(TitlesSoFar(p)))
            /\ pc[p] = "done" => TitlesSoFar(p) = TitleNodes(p)

\* A page was extracted whose last title element is empty and comes after
\* two titles with text, one of them nested and with an element inside:
\* the title is empty.
C19_Witness ==
    \E p \in Procs :
        /\ pc[p] = "done" /\ data[p] # None
        /\ \E n \in TitleNodes(p) : FlatText(PageOf(p), n) = " T "
        /\ \E n \in TitleNodes(p) : FlatText(PageOf(p), n) = "U V"
        /\ FlatText(PageOf(p), LastOf(TitleNodes(p))) = ""
        /\ data[p][1].Title = ""

\* The i-th node of a set of nodes in document order.
Nth(nodes, i) == CHOOSE n \in nodes : Cardinality({m \in nodes : m <= n}) = i

\* The nodes of the page of p that extractData has reached when it has
\* visited k nodes in pre-order, and among them the a elements with an
\* href, the img elements with a src and the h1..h6 elements with text.
Reached(p, k, qualifies(_, _)) == {n \in 1..k : qualifies(p, n)}
HasHref(p, n) == IsTag(p, n, "a") /\ FirstValue(PageOf(p)[n].Attr, "href") # ""
HasSrc(p, n) == IsTag(p, n, "img") /\ FirstValue(PageOf(p)[n].Attr, "src") # ""
HasHeading(p, n) ==
    /\ PageOf(p)[n].Type = "element"
    /\ PageOf(p)[n].Data \in HeadingTags
    /\ ~Blank(FlatText(PageOf(p), n))

\* The value stored for a reference written on the page of p.
Stored(p, written) == Resolutions[req[p].url, written].value

\* C20: the nodes are visited in pre-order, each once (a page is the list
\* of its nodes in pre-order, so the k-th visit is that of node k), and all
\* of them in the end, whatever element they are inside of; links, images
\* and headings hold, in document order, one entry for every qualifying
\* element reached, nested in a matched element or not, and the text of a
\* link or heading is the trimmed text of its whole subtree, nested
\* elements included.
C20_PreOrderNoPruning ==
    \A p \in Procs :
        data[p] # None =>
            /\ \A k \in 1..Len(visited[p]) : visited[p][k] = k
            /\ Len(visited[p]) <= Len(PageOf(p))
            /\ pc[p] = "done" => Len(visited[p]) = Len(PageOf(p))
            /\ Len(data[p][1].Links) = Cardinality(Reached(p, Len(visited[p]), HasHref))
            /\ Len(data[p][1].Images) = Cardinality(Reached(p, Len(visited[p]), HasSrc))
            /\ Len(data[p][1].Headings)
                    = Cardinality(Reached(p, Len(visited[p]), HasHeading))
            /\ \A i \in 1..Len(data[p][1].Links) :
                    /\ data[p][1].Links[i].Href =
                            Stored(p, FirstValue(
                                PageOf(p)[Nth(Reached(p, Len(visited[p]), HasHref), i)].Attr,
                                "href"))
                    /\ \/ IsTrimOf(data[p][1].Links[i].Text,
                            FlatText(PageOf(p), Nth(Reached(p, Len(visited[p]), HasHref), i)))
                       \/ /\ data[p][1].Links[i].Text = ""
                          /\ Blank(FlatText(PageOf(p),
                                    Nth(Reached(p, Len(visited[p]), HasHref), i)))
            /\ \A i \in 1..Len(data[p][1].Images) :
                    data[p][1].Images[i] =
                        Stored(p, FirstValue(
                            PageOf(p)[Nth(Reached(p, Len(visited[p]), HasSrc), i)].Attr, "src"))
            /\ \A i \in 1..Len(data[p][1].Headings) :
                    /\ "h" \o Itoa(data[p][1].Headings[i].Level) =
                            PageOf(p)[Nth(Reached(p, Len(visited[p]), HasHeading), i)].Data
                    /\ IsTrimOf(data[p][1].Headings[i].Text,
                            FlatText(PageOf(p), Nth(Reached(p, Len(visited[p]), HasHeading), i)))

\* The page with an h1 holding text, an img and an a that holds text and an
\* img, followed by another a, was extracted: nine visits, the heading xyz,
\* two links of which the first has the text y, and two images.
C20_Witness ==
    \E p \in Procs :
        /\ pc[p] = "done" /\ data[p] # None
        /\ Len(visited[p]) = 9
        /\ data[p][1].Headings = <<[Level |-> 1, Text |-> "xyz"]>>
        /\ Len(data[p][1].Links) = 2
        /\ data[p][1].Links[1].Text = "y"
        /\ Len(data[p][1].Images) = 2
        /\ HasSuffix(data[p][1].Images[1], "i.png")
        /\ HasSuffix(data[p][1].Images[2], "a.html")
====
